---- MODULE Spec2Model ----
(***************************************************************************)
(* HEALTH-BRIDGE slot-filling session: ConversationState, the field        *)
(* extractor, the question generator and the SessionManager that drives    *)
(* them (backend/app/services).                                            *)
(*                                                                         *)
(* Conventions                                                             *)
(*  - a Python dict is a sequence of records with unique keys, in          *)
(*    insertion order (dict iteration order is observable in the code);    *)
(*  - a Python list is a sequence;                                         *)
(*  - None is the string NONE;                                             *)
(*  - an extraction confidence (float 0.0 .. 1.0) is an integer percent;   *)
(*  - the readiness score (float, multiples of 0.25) is counted in         *)
(*    quarters: 1.0 is 4, 0.75 is 3, 0.5 is 2;                             *)
(*  - a text (message, question, response) is a string, long fixed texts   *)
(*    are shortened; timestamps and user_id are not modelled.              *)
(***************************************************************************)
EXTENDS Integers, Sequences, FiniteSets, TLC

\* ------------------------------------------------------------------------
\* Program constants
\* ------------------------------------------------------------------------
MAX_MESSAGES == 20
MAX_CLARIFICATIONS_PER_FIELD == 3
INTAKE_MIN_FIELDS == 4
INTAKE_MAX_TURNS == 8
FOLLOW_UP_MIN_QUESTIONS == 2
FOLLOW_UP_MAX_TURNS == 5
GENERAL_MIN_LENGTH == 15

NONE == "<None>"

HIGH == "high"
MEDIUM == "medium"
LOW == "low"
NEEDS_CLARIFICATION == "needs_clarification"

FieldConfidence == {HIGH, MEDIUM, LOW, NEEDS_CLARIFICATION}

CRITICAL_FIELDS == {"age", "sex", "conditions"}

\* ------------------------------------------------------------------------
\* Bounds of the exploration
\* ------------------------------------------------------------------------
\* process_message / add_user_message are not called once turn_count = MaxTurn
MaxTurn == 9
\* complete_session is not called once sessions_completed = MaxSessions
MaxSessions == 1
\* messages that carry fields are sent in the first MaxInformativeTurns turns
MaxInformativeTurns == 3
\* in SpecLife no message is sent once _ack_index = MaxAck
MaxAck == 3
\* in SpecState add_user_message is not called once turn_count = MaxStateTurn
MaxStateTurn == 1
\* in SpecState mark_ambiguous is not called on a field marked MaxMarks times
MaxMarks == 3
\* in SpecRing add_user_message is not called once turn_count = MaxSends
MaxSends == 25
\* in SpecRing at most MaxYes of the messages sent are "yes", the rest "hello"
MaxYes == 2
\* in SpecLog process_message is not called once turn_count = MaxLogTurn
MaxLogTurn == 14
\* in SpecPool the thread pool runs MaxCalls process_message calls at once
MaxCalls == 2
\* in SpecShared process_message is not called once turn_count = MaxSharedTurn
MaxSharedTurn == 4
\* in SpecFamily process_message is not called once turn_count = MaxFamilyTurn
MaxFamilyTurn == 3
\* in SpecQuestion add_user_message is not called once turn_count = MaxQuestionTurn
MaxQuestionTurn == 1
\* in SpecQuestion get_next_question is not called once _ack_index = MaxQuestionAck
MaxQuestionAck == 2
\* in SpecCrew add_user_message is not called once turn_count = MaxCrewTurn
MaxCrewTurn == 21
\* in SpecCrew only the first MaxCrewLong messages have words, the rest are blank
MaxCrewLong == 1
\* in SpecReset process_message is not called once turn_count = MaxResetTurn
MaxResetTurn == 4
\* in SpecReset process_message is not called once alcohol was marked MaxResetMarks times
MaxResetMarks == 4
\* in SpecHandoff no message is sent to a manager whose turn_count = MaxHandoffTurn
MaxHandoffTurn == 3
\* in SpecSave process_message is not called once turn_count = MaxSaveTurn
MaxSaveTurn == 2
\* in SpecSave a save fails after at most MaxStores store_memory calls, or not at all
MaxStores == 2
\* user messages sent before a pattern analysis
MaxPatternTurn == 2
\* memories handed to one analyze_memory_history call
MaxMemories == 2
\* in SpecScore mark_ambiguous is not called on a field marked MaxScoreMarks times
MaxScoreMarks == 1
\* in SpecSingleton process_message is not called once turn_count = MaxSingletonTurn
MaxSingletonTurn == 2

\* ------------------------------------------------------------------------
\* Lists and dicts
\* ------------------------------------------------------------------------
InSeq(x, seq) == \E i \in 1..Len(seq) : seq[i] = x

\* list.remove(x): drops the first occurrence
RemoveFirst(seq, x) ==
    IF ~InSeq(x, seq) THEN seq
    ELSE LET i == CHOOSE k \in 1..Len(seq) :
                      seq[k] = x /\ \A j \in 1..(k - 1) : seq[j] # x
         IN SubSeq(seq, 1, i - 1) \o SubSeq(seq, i + 1, Len(seq))

\* seq[-n:]
LastN(seq, n) ==
    IF Len(seq) <= n THEN seq ELSE SubSeq(seq, Len(seq) - n + 1, Len(seq))

\* dicts keyed by a "name" component
HasKey(d, name) == \E i \in 1..Len(d) : d[i].name = name

KeyIndex(d, name) == CHOOSE i \in 1..Len(d) : d[i].name = name

DictGet(d, name) == d[KeyIndex(d, name)]

\* d[name] = rec : overwrite in place or insert at the end
DictPut(d, rec) ==
    IF HasKey(d, rec.name) THEN [d EXCEPT ![KeyIndex(d, rec.name)] = rec]
    ELSE Append(d, rec)

Keys(d) == {d[i].name : i \in 1..Len(d)}

\* ------------------------------------------------------------------------
\* ConversationState (conversation_state.py)
\* ------------------------------------------------------------------------
ConversationState(session_type) ==
    [session_type |-> session_type,
     messages |-> <<>>,
     collected_fields |-> <<>>,
     implied_fields |-> <<>>,
     ambiguous_fields |-> <<>>,
     turn_count |-> 0,
     sessions_completed |-> 0,
     last_question_field |-> NONE,
     urgent_flags |-> <<>>,
     clarification_attempts |-> <<>>]

\* _prune_messages that keeps the oldest MAX_MESSAGES entries
prune_messages_oldest(s) ==
    IF Len(s.messages) > MAX_MESSAGES
    THEN [s EXCEPT !.messages = SubSeq(s.messages, 1, MAX_MESSAGES)]
    ELSE s

prune_messages(s) ==
    IF Len(s.messages) > MAX_MESSAGES
    THEN [s EXCEPT !.messages = LastN(s.messages, MAX_MESSAGES)]
    ELSE s

add_user_message(s, message) ==
    LET turn == s.turn_count + 1
    IN prune_messages(
         [s EXCEPT !.turn_count = turn,
                   !.messages = Append(@, [role |-> "user",
                                           content |-> message,
                                           turn |-> turn])])

add_agent_message(s, message, question_field) ==
    [s EXCEPT !.messages = Append(@, [role |-> "agent",
                                      content |-> message,
                                      turn |-> s.turn_count]),
              !.last_question_field = question_field]

\* set_field that keeps the value a field already holds
set_field_merge(s, name, value, confidence, source_message, clarifying_question) ==
    [s EXCEPT !.collected_fields =
                  DictPut(@, [name |-> name,
                              value |-> IF HasKey(@, name)
                                        THEN DictGet(@, name).value
                                        ELSE value,
                              confidence |-> confidence,
                              source_message |-> source_message,
                              turn_number |-> s.turn_count,
                              clarifying_question |-> clarifying_question]),
              !.ambiguous_fields = RemoveFirst(@, name)]

set_field(s, name, value, confidence, source_message, clarifying_question) ==
    [s EXCEPT !.collected_fields =
                  DictPut(@, [name |-> name,
                              value |-> value,
                              confidence |-> confidence,
                              source_message |-> source_message,
                              turn_number |-> s.turn_count,
                              clarifying_question |-> clarifying_question]),
              !.ambiguous_fields = RemoveFirst(@, name)]

set_implied(s, name, value, reason) ==
    [s EXCEPT !.implied_fields =
                  DictPut(@, [name |-> name,
                              value |-> value \o " (inferred: " \o reason \o ")"])]

\* clarification_attempts.get(name, 0)
Attempts(s, name) ==
    IF HasKey(s.clarification_attempts, name)
    THEN DictGet(s.clarification_attempts, name).count
    ELSE 0

\* mark_ambiguous that forces LOW only past MAX_CLARIFICATIONS_PER_FIELD
mark_ambiguous_past_max(s, name, clarifying_question) ==
    LET n == Attempts(s, name) + 1
        s1 == [s EXCEPT !.ambiguous_fields =
                            IF InSeq(name, @) THEN @ ELSE Append(@, name),
                        !.clarification_attempts =
                            DictPut(@, [name |-> name, count |-> n])]
    IN IF HasKey(s1.collected_fields, name)
       THEN LET i == KeyIndex(s1.collected_fields, name)
            IN IF n > MAX_CLARIFICATIONS_PER_FIELD
               THEN [s1 EXCEPT !.collected_fields[i].confidence = LOW,
                               !.ambiguous_fields = RemoveFirst(@, name)]
               ELSE [s1 EXCEPT !.collected_fields[i].clarifying_question =
                                   clarifying_question,
                               !.collected_fields[i].confidence =
                                   NEEDS_CLARIFICATION]
       ELSE s1

mark_ambiguous(s, name, clarifying_question) ==
    LET n == Attempts(s, name) + 1
        s1 == [s EXCEPT !.ambiguous_fields =
                            IF InSeq(name, @) THEN @ ELSE Append(@, name),
                        !.clarification_attempts =
                            DictPut(@, [name |-> name, count |-> n])]
    IN IF HasKey(s1.collected_fields, name)
       THEN LET i == KeyIndex(s1.collected_fields, name)
            IN IF n >= MAX_CLARIFICATIONS_PER_FIELD
               THEN [s1 EXCEPT !.collected_fields[i].confidence = LOW,
                               !.ambiguous_fields = RemoveFirst(@, name)]
               ELSE [s1 EXCEPT !.collected_fields[i].clarifying_question =
                                   clarifying_question,
                               !.collected_fields[i].confidence =
                                   NEEDS_CLARIFICATION]
       ELSE s1

add_urgent_flag(s, symptom) ==
    IF InSeq(symptom, s.urgent_flags) THEN s
    ELSE [s EXCEPT !.urgent_flags = Append(@, symptom)]

get_user_messages(s) ==
    LET user(m) == m.role = "user"
        sel == SelectSeq(s.messages, user)
    IN [i \in 1..Len(sel) |-> sel[i].content]

get_recent_messages(s, max_turns) == LastN(get_user_messages(s), max_turns)

get_field_value(s, name) ==
    IF HasKey(s.collected_fields, name)
    THEN DictGet(s.collected_fields, name).value
    ELSE NONE

has_field(s, name) == HasKey(s.collected_fields, name)

get_fields_needing_clarification(s) ==
    LET needs(f) == f.confidence = NEEDS_CLARIFICATION
    IN SelectSeq(s.collected_fields, needs)

complete_session_state(s) ==
    LET n == s.sessions_completed + 1
    IN [s EXCEPT !.sessions_completed = n,
                 !.messages = Append(@, [role |-> "system",
                                         content |-> "[SESSION " \o ToString(n) \o " COMPLETE]",
                                         turn |-> s.turn_count])]

\* has_urgent_symptoms that needs two flags
has_urgent_symptoms_two(s) == Len(s.urgent_flags) > 1

has_urgent_symptoms(s) == Len(s.urgent_flags) > 0

\* every field counted as one, whatever its confidence
WeightRawCount(confidence) == 4

\* weight of one collected field, in quarters
Weight(confidence) ==
    IF confidence \in {HIGH, MEDIUM} THEN 4
    ELSE IF confidence = LOW THEN 3
    ELSE IF confidence = NEEDS_CLARIFICATION THEN 2
    ELSE 0

RECURSIVE SumWeights(_)
SumWeights(fields) ==
    IF fields = <<>> THEN 0
    ELSE Weight(Head(fields).confidence) + SumWeights(Tail(fields))

\* the score, in quarters
count_collected_fields(s) == SumWeights(s.collected_fields)

has_critical_fields(s) ==
    \A field_name \in CRITICAL_FIELDS : HasKey(s.collected_fields, field_name)

\* keeps user_id, session_type, and what the method does not assign:
\* sessions_completed and clarification_attempts
reset_state(s) ==
    [s EXCEPT !.messages = <<>>,
              !.collected_fields = <<>>,
              !.implied_fields = <<>>,
              !.ambiguous_fields = <<>>,
              !.turn_count = 0,
              !.last_question_field = NONE,
              !.urgent_flags = <<>>]

\* ------------------------------------------------------------------------
\* Texts
\* ------------------------------------------------------------------------
\* sep.join(parts)
RECURSIVE Join(_, _)
Join(parts, sep) ==
    IF parts = <<>> THEN ""
    ELSE IF Len(parts) = 1 THEN parts[1]
    ELSE parts[1] \o sep \o Join(Tail(parts), sep)

get_combined_input(s) == Join(get_user_messages(s), " ")

\* The user messages of the model, with what the regular expressions and
\* str.split of the code find in each of them.
\*   words:        len(message.split())
\*   has_question: re.search(r"\?|how|what|why|when|can|should|is it")
\*   has_topic:    re.search(r"\b(diet|exercise|...|health|symptom)\w*\b")
\*   urgent:       the symptoms whose pattern matches the lowered message
MessageTable ==
    << [text |-> "hello", words |-> 1,
        has_question |-> FALSE, has_topic |-> FALSE, urgent |-> {}],
       [text |-> "i have chest pain", words |-> 4,
        has_question |-> FALSE, has_topic |-> FALSE, urgent |-> {"chest pain"}],
       [text |-> "i feel faint", words |-> 3,
        has_question |-> FALSE, has_topic |-> FALSE, urgent |-> {"fainting"}],
       [text |-> "i am a 45 year old male with diabetes", words |-> 9,
        has_question |-> FALSE, has_topic |-> TRUE, urgent |-> {}],
       [text |-> "i don't smoke", words |-> 3,
        has_question |-> FALSE, has_topic |-> FALSE, urgent |-> {}],
       [text |-> "i don't smoke or drink, i eat rice and walk daily", words |-> 11,
        has_question |-> FALSE, has_topic |-> FALSE, urgent |-> {}],
       [text |-> "yes", words |-> 1,
        has_question |-> FALSE, has_topic |-> FALSE, urgent |-> {}],
       [text |-> "none", words |-> 1,
        has_question |-> FALSE, has_topic |-> FALSE, urgent |-> {}],
       [text |-> "my father had hypertension", words |-> 4,
        has_question |-> FALSE, has_topic |-> TRUE, urgent |-> {}],
       [text |-> " ", words |-> 0,
        has_question |-> FALSE, has_topic |-> FALSE, urgent |-> {}] >>

AllMessages == {MessageTable[i].text : i \in 1..Len(MessageTable)}

MessageInfo(message) ==
    MessageTable[CHOOSE i \in 1..Len(MessageTable) : MessageTable[i].text = message]

\* ------------------------------------------------------------------------
\* LLMExtractor (llm_extractor.py)
\* ------------------------------------------------------------------------
ExtractionResult(field_name, value, confidence, needs_clarification, clarifying_question, source) ==
    [name |-> field_name,
     value |-> value,
     confidence |-> confidence,
     needs_clarification |-> needs_clarification,
     clarifying_question |-> clarifying_question,
     source |-> source]

\* the symptom labels, in the order of the pattern list
UrgentSymptoms ==
    << "chest pain", "breathing difficulty", "severe headache",
       "vision problems", "fainting", "numbness/weakness", "speech problems" >>

detect_urgent_symptoms(message) ==
    LET matches(symptom) == symptom \in MessageInfo(message).urgent
    IN SelectSeq(UrgentSymptoms, matches)

get_clarifying_question(field) ==
    CASE field = "age" -> "Could you tell me your exact age?"
      [] field = "conditions" ->
             "Could you be more specific about your health conditions?"
      [] field = "family_history" -> "Which family member had this condition?"
      [] field = "smoking" ->
             "How often do you smoke - daily, occasionally, or have you quit?"
      [] field = "alcohol" -> "About how many drinks per week?"
      [] field = "diet" -> "Could you describe what you typically eat in a day?"
      [] field = "activity" ->
             "How many days per week do you exercise, and for how long?"
      [] OTHER -> "Could you tell me more about your " \o field \o "?"

\* _extract_with_llm that does not hand the urgent symptoms on
extract_with_llm_no_urgent(reply, urgent_symptoms) ==
    LET given(data) == data.value # NONE
        kept == SelectSeq(reply.fields, given)
    IN [fields |-> [i \in 1..Len(kept) |->
                       ExtractionResult(kept[i].name, kept[i].value,
                                        kept[i].confidence,
                                        kept[i].needs_clarification,
                                        get_clarifying_question(kept[i].name),
                                        "llm")],
        implied |-> reply.implied,
        urgent_symptoms |-> <<>>]

\* The parsed reply of the LLM: ok = FALSE is any failure of the call or of
\* the parsing; fields is the "fields" object, a dict of
\* [name, value, confidence, needs_clarification]; implied the "implied" one.
\* Entries whose value is None are dropped, every other one gets the
\* clarifying question of its field.
extract_with_llm(reply, urgent_symptoms) ==
    LET given(data) == data.value # NONE
        kept == SelectSeq(reply.fields, given)
    IN [fields |-> [i \in 1..Len(kept) |->
                       ExtractionResult(kept[i].name, kept[i].value,
                                        kept[i].confidence,
                                        kept[i].needs_clarification,
                                        get_clarifying_question(kept[i].name),
                                        "llm")],
        implied |-> reply.implied,
        urgent_symptoms |-> urgent_symptoms]

\* The regex fallback on the messages of MessageTable.
RegexFields(message, last_question_field) ==
    CASE message = "i am a 45 year old male with diabetes" ->
           << ExtractionResult("age", "45", 90, FALSE, NONE, "regex"),
              ExtractionResult("sex", "male", 90, FALSE, NONE, "regex"),
              ExtractionResult("conditions", "diabetes", 80, FALSE, NONE, "regex") >>
      [] message = "my father had hypertension" ->
           << ExtractionResult("conditions", "hypertension", 80, FALSE, NONE, "regex"),
              ExtractionResult("family_history", message, 70, FALSE, NONE, "regex") >>
      [] message = "i don't smoke" ->
           << ExtractionResult("smoking", "no", 90, FALSE, NONE, "regex") >>
      [] message = "i don't smoke or drink, i eat rice and walk daily" ->
           << ExtractionResult("smoking", "no", 90, FALSE, NONE, "regex"),
              ExtractionResult("alcohol", "regularly", 80, FALSE, NONE, "regex"),
              ExtractionResult("diet", message, 70, FALSE, NONE, "regex"),
              ExtractionResult("activity", message, 70, FALSE, NONE, "regex") >>
      [] message = "yes" /\ last_question_field = "smoking" ->
           << ExtractionResult("smoking", "yes", 90, FALSE, NONE, "regex") >>
      [] message = "yes" /\ last_question_field = "alcohol" ->
           << ExtractionResult("alcohol", "yes", 70, TRUE,
                               "How often do you drink?", "regex") >>
      [] message = "none" /\ last_question_field = "conditions" ->
           << ExtractionResult("conditions", "none", 90, FALSE, NONE, "regex") >>
      [] message = "none" /\ last_question_field = "family_history" ->
           << ExtractionResult("family_history", "none", 90, FALSE, NONE, "regex") >>
      [] message = "none" /\ last_question_field = "constraints" ->
           << ExtractionResult("constraints", "none", 90, FALSE, NONE, "regex") >>
      [] OTHER -> <<>>

extract_with_regex(message, last_question_field, urgent_symptoms) ==
    [fields |-> RegexFields(message, last_question_field),
     implied |-> <<>>,
     urgent_symptoms |-> urgent_symptoms]

\* what the caller of extract_all gets when an exception leaves it
Raised == [raised |-> TRUE]

\* extract_all without the try / except around the LLM extraction
extract_all_uncaught(llm_available, message, last_question_field, reply) ==
    LET urgent == detect_urgent_symptoms(message)
    IN IF llm_available
       THEN IF reply.ok THEN extract_with_llm(reply, urgent) ELSE Raised
       ELSE extract_with_regex(message, last_question_field, urgent)

extract_all(llm_available, message, last_question_field, reply) ==
    LET urgent == detect_urgent_symptoms(message)
    IN IF llm_available /\ reply.ok
       THEN extract_with_llm(reply, urgent)
       ELSE extract_with_regex(message, last_question_field, urgent)

\* ------------------------------------------------------------------------
\* QuestionGenerator (question_generator.py)
\* ------------------------------------------------------------------------
\* skip_if_age_over = 0 stands for None
FIELD_CONFIGS ==
    << [name |-> "age", question |-> "How old are you?",
        priority |-> 1, order |-> 1, skip_if_age_over |-> 0],
       [name |-> "sex", question |-> "Are you male or female?",
        priority |-> 1, order |-> 2, skip_if_age_over |-> 0],
       [name |-> "conditions",
        question |-> "Do you have any existing health conditions?",
        priority |-> 1, order |-> 3, skip_if_age_over |-> 0],
       [name |-> "family_history",
        question |-> "Does anyone in your family have hypertension, diabetes, or heart disease?",
        priority |-> 2, order |-> 4, skip_if_age_over |-> 0],
       [name |-> "smoking", question |-> "Do you smoke? (yes / no / quit)",
        priority |-> 2, order |-> 5, skip_if_age_over |-> 75],
       [name |-> "alcohol",
        question |-> "Do you drink alcohol? (no / occasionally / regularly)",
        priority |-> 2, order |-> 6, skip_if_age_over |-> 0],
       [name |-> "diet", question |-> "What does your typical diet look like?",
        priority |-> 2, order |-> 7, skip_if_age_over |-> 0],
       [name |-> "activity", question |-> "How physically active are you?",
        priority |-> 2, order |-> 8, skip_if_age_over |-> 0],
       [name |-> "constraints",
        question |-> "Are there any constraints that might affect your health habits?",
        priority |-> 3, order |-> 9, skip_if_age_over |-> 0] >>

ACKNOWLEDGMENTS ==
    << "Thanks for sharing that!", "Got it, thank you.", "I've noted that.",
       "Thanks! That helps.", "Understood.", "Great, thanks." >>

URGENT_RESPONSE(symptoms) ==
    "IMPORTANT: You mentioned " \o symptoms
        \o ". Please seek immediate medical attention."

\* int(value) of a field value; -1 when int() raises
IntValue(value) ==
    CASE value = "45" -> 45
      [] value = "80" -> 80
      [] OTHER -> -1

\* name.replace("_", " ")
DisplayName(name) ==
    CASE name = "family_history" -> "family history"
      [] name = "habits_followed" -> "habits followed"
      [] name = "habits_struggled" -> "habits struggled"
      [] name = "health_readings" -> "health readings"
      [] OTHER -> name

\* sorted(key = (priority, order)), stable
RECURSIVE SortByPriority(_)
SortByPriority(items) ==
    IF items = <<>> THEN <<>>
    ELSE LET before(a, b) ==
                 \/ a.priority < b.priority
                 \/ a.priority = b.priority /\ a.order < b.order
             i == CHOOSE k \in 1..Len(items) :
                      /\ \A j \in 1..Len(items) : ~before(items[j], items[k])
                      /\ \A j \in 1..(k - 1) : before(items[k], items[j])
         IN <<items[i]>> \o
            SortByPriority(SubSeq(items, 1, i - 1)
                           \o SubSeq(items, i + 1, Len(items)))

\* _get_missing_fields without the age-based skip
get_missing_fields_no_skip(s) ==
    LET missing(config) == ~has_field(s, config.name)
        sorted == SortByPriority(SelectSeq(FIELD_CONFIGS, missing))
    IN [i \in 1..Len(sorted) |-> sorted[i].name]

get_missing_fields(s) ==
    LET user_age == get_field_value(s, "age")
        missing(config) ==
            /\ ~has_field(s, config.name)
            /\ ~(/\ config.skip_if_age_over # 0
                 /\ user_age \notin {NONE, ""}
                 /\ IntValue(user_age) > config.skip_if_age_over)
        sorted == SortByPriority(SelectSeq(FIELD_CONFIGS, missing))
    IN [i \in 1..Len(sorted) |-> sorted[i].name]

\* returns the acknowledgment and the new _ack_index
build_acknowledgment(s, ack_index) ==
    LET thisTurn(f) == f.turn_number = s.turn_count
        fs == SelectSeq(s.collected_fields, thisTurn)
        recent == [i \in 1..Len(fs) |-> DisplayName(fs[i].name)]
    IN IF recent # <<>>
       THEN IF Len(recent) = 1
            THEN [ack |-> "Thanks! I've noted your " \o recent[1] \o ".",
                  ack_index |-> ack_index]
            ELSE [ack |-> "Thanks! I've noted your "
                            \o Join(SubSeq(recent, 1, Len(recent) - 1), ", ")
                            \o " and " \o recent[Len(recent)] \o ".",
                  ack_index |-> ack_index]
       ELSE IF s.implied_fields # <<>>
            THEN [ack |-> "Got it, thanks for that context.",
                  ack_index |-> ack_index]
            ELSE [ack |-> ACKNOWLEDGMENTS[(ack_index % Len(ACKNOWLEDGMENTS)) + 1],
                  ack_index |-> ack_index + 1]

NoQuestion(ack_index) ==
    [question |-> NONE, field |-> NONE, ack_index |-> ack_index]

ConfigOf(name) ==
    FIELD_CONFIGS[CHOOSE i \in 1..Len(FIELD_CONFIGS) : FIELD_CONFIGS[i].name = name]

\* _get_intake_question that asks for a missing field before it re-asks
get_intake_question_missing_first(s, ack_index) ==
    LET needs_clarification == get_fields_needing_clarification(s)
        missing == get_missing_fields(s)
    IN IF missing # <<>>
       THEN IF s.turn_count > 0
            THEN LET a == build_acknowledgment(s, ack_index)
                 IN [question |-> a.ack \o "\n\n" \o ConfigOf(missing[1]).question,
                     field |-> missing[1],
                     ack_index |-> a.ack_index]
            ELSE [question |-> ConfigOf(missing[1]).question,
                  field |-> missing[1],
                  ack_index |-> ack_index]
       ELSE IF /\ needs_clarification # <<>>
               /\ needs_clarification[1].clarifying_question \notin {NONE, ""}
       THEN [question |-> "I need a bit more detail: "
                            \o needs_clarification[1].clarifying_question,
             field |-> needs_clarification[1].name,
             ack_index |-> ack_index]
       ELSE NoQuestion(ack_index)

get_intake_question(s, ack_index) ==
    LET needs_clarification == get_fields_needing_clarification(s)
        missing == get_missing_fields(s)
    IN IF /\ needs_clarification # <<>>
          /\ needs_clarification[1].clarifying_question \notin {NONE, ""}
       THEN [question |-> "I need a bit more detail: "
                            \o needs_clarification[1].clarifying_question,
             field |-> needs_clarification[1].name,
             ack_index |-> ack_index]
       ELSE IF missing = <<>>
       THEN NoQuestion(ack_index)
       ELSE IF s.turn_count > 0
       THEN LET a == build_acknowledgment(s, ack_index)
            IN [question |-> a.ack \o "\n\n" \o ConfigOf(missing[1]).question,
                field |-> missing[1],
                ack_index |-> a.ack_index]
       ELSE [question |-> ConfigOf(missing[1]).question,
             field |-> missing[1],
             ack_index |-> ack_index]

followup_fields ==
    << [name |-> "habits_followed",
        question |-> "Which habits from your plan have you been able to follow?"],
       [name |-> "habits_struggled",
        question |-> "Have you stopped or struggled with any habits? Which ones and why?"],
       [name |-> "health_readings",
        question |-> "Have you had any recent health readings like blood pressure or weight?"],
       [name |-> "barriers",
        question |-> "Are you facing any challenges or barriers to following your plan?"],
       [name |-> "feelings",
        question |-> "How are you feeling overall - any symptoms or concerns?"] >>

get_followup_question(s, ack_index) ==
    LET open(f) == ~has_field(s, f.name)
        left == SelectSeq(followup_fields, open)
    IN IF left = <<>> THEN NoQuestion(ack_index)
       ELSE IF s.turn_count > 0
       THEN [question |-> ACKNOWLEDGMENTS[(ack_index % Len(ACKNOWLEDGMENTS)) + 1]
                            \o "\n\n" \o left[1].question,
             field |-> left[1].name,
             ack_index |-> ack_index + 1]
       ELSE [question |-> left[1].question,
             field |-> left[1].name,
             ack_index |-> ack_index]

get_next_question(s, session_type, ack_index) ==
    IF has_urgent_symptoms(s)
    THEN [question |-> URGENT_RESPONSE(Join(s.urgent_flags, ", ")),
          field |-> NONE,
          ack_index |-> ack_index]
    ELSE IF session_type = "intake" THEN get_intake_question(s, ack_index)
    ELSE IF session_type = "follow_up" THEN get_followup_question(s, ack_index)
    ELSE NoQuestion(ack_index)

welcome_message(session_type) ==
    IF session_type = "intake"
    THEN [welcome |-> "Welcome! Let's start: " \o ConfigOf("age").question,
          field |-> "age"]
    ELSE IF session_type = "follow_up"
    THEN [welcome |-> "Welcome back! Which habits from your plan have you been able to follow?",
          field |-> "habits_followed"]
    ELSE [welcome |-> "Hi! What would you like to know?", field |-> NONE]

\* ------------------------------------------------------------------------
\* SessionManager (session_manager.py)
\* ------------------------------------------------------------------------
VARIABLES
    state,            \* SessionManager.state, the ConversationState
    session_type,     \* SessionManager.session_type
    llm_available,    \* extractor.llm_available and extractor.use_llm
    ack_index,        \* QuestionGenerator._ack_index
    result,           \* what the last call returned, and which call it was
    ready_seen,       \* the caller has been handed ready_for_crew = True by a
                      \* process_message since construction or the last reset
    calls,            \* the process_message calls the orchestrator's thread
                      \* pool runs on this manager, each with its position
    last_crew_hash,   \* SessionManager._last_crew_hash
    analysed,         \* history: should_run_full_crew has returned True and
                      \* the (field, value) pairs have not changed since
    sessions,         \* the keys of ChatOrchestrator._sessions; state is the
                      \* state of the manager kept under SessionId, if any
    memory,           \* what SemanticMemory.store_memory has stored for the user
    use_llm           \* the use_llm argument the SessionManager was made with

\* what the calls on the conversation leave alone
manager_vars == <<last_crew_hash, analysed, sessions, memory, use_llm>>

vars == <<state, session_type, llm_available, ack_index, result, ready_seen, calls, manager_vars>>

SessionTypes == {"intake", "follow_up", "general"}

\* the calls handed to the executor, one per worker thread
Workers == 1..MaxCalls

\* a call that run_in_executor has submitted and that has not started
Submitted == [pc |-> "submitted", turn_count |-> 0, entry_turn |-> 0]

SessionResult(op, response, ready_for_crew, s, has_urgent, urgent_symptoms) ==
    [op |-> op,
     response |-> response,
     ready_for_crew |-> ready_for_crew,
     turn_count |-> s.turn_count,
     has_urgent_symptoms |-> has_urgent,
     urgent_symptoms |-> urgent_symptoms]

RECURSIVE process_fields(_, _, _)
process_fields(s, fields, source_message) ==
    IF fields = <<>> THEN s
    ELSE LET r == Head(fields)
             confidence == IF r.needs_clarification THEN NEEDS_CLARIFICATION
                           ELSE IF r.confidence >= 80 THEN HIGH
                           ELSE IF r.confidence >= 50 THEN MEDIUM
                           ELSE LOW
             s1 == IF r.needs_clarification
                   THEN mark_ambiguous(s, r.name,
                                       IF r.clarifying_question = NONE THEN ""
                                       ELSE r.clarifying_question)
                   ELSE s
             s2 == set_field(s1, r.name, r.value, confidence, source_message,
                             r.clarifying_question)
         IN process_fields(s2, Tail(fields), source_message)

RECURSIVE process_implied(_, _)
process_implied(s, implied) ==
    IF implied = <<>> THEN s
    ELSE process_implied(set_implied(s, Head(implied).name,
                                     Head(implied).value, "context"),
                         Tail(implied))

RECURSIVE process_urgent(_, _)
process_urgent(s, symptoms) ==
    IF symptoms = <<>> THEN s
    ELSE process_urgent(add_urgent_flag(s, Head(symptoms)), Tail(symptoms))

process_extraction(s, extraction, source_message) ==
    process_urgent(
        process_implied(
            process_fields(s, extraction.fields, source_message),
            extraction.implied),
        extraction.urgent_symptoms)

RECURSIVE SumWords(_)
SumWords(msgs) ==
    IF msgs = <<>> THEN 0
    ELSE MessageInfo(Head(msgs)).words + SumWords(Tail(msgs))

\* the intake branch with a safety valve that opens one turn late
intake_ready_late_valve(s) ==
    LET has_critical == has_critical_fields(s)
        enough == has_critical
                  /\ count_collected_fields(s) >= 4 * INTAKE_MIN_FIELDS
        safety_valve == s.turn_count > INTAKE_MAX_TURNS
    IN enough \/ safety_valve

\* the intake branch without the critical-field gate
intake_ready_no_critical(s) ==
    LET enough == count_collected_fields(s) >= 4 * INTAKE_MIN_FIELDS
        safety_valve == s.turn_count >= INTAKE_MAX_TURNS
    IN enough \/ safety_valve

\* the intake branch asking for more than INTAKE_MIN_FIELDS
intake_ready_strict_min(s) ==
    LET has_critical == has_critical_fields(s)
        enough == has_critical
                  /\ count_collected_fields(s) > 4 * INTAKE_MIN_FIELDS
        safety_valve == s.turn_count >= INTAKE_MAX_TURNS
    IN enough \/ safety_valve

\* _assess_readiness, session_type == "intake"
intake_ready(s) ==
    LET has_critical == has_critical_fields(s)
        enough == has_critical
                  /\ count_collected_fields(s) >= 4 * INTAKE_MIN_FIELDS
        safety_valve == s.turn_count >= INTAKE_MAX_TURNS
    IN enough \/ safety_valve

\* _assess_readiness, session_type == "follow_up"
follow_up_ready(s) ==
    LET enough == count_collected_fields(s) >= 4 * FOLLOW_UP_MIN_QUESTIONS
        safety_valve == s.turn_count >= FOLLOW_UP_MAX_TURNS
        long_enough == SumWords(get_user_messages(s)) >= 20
    IN enough \/ safety_valve \/ long_enough

\* _assess_readiness, general session
general_ready(s) ==
    LET msgs == get_user_messages(s)
        combined == Join(msgs, " ")
        has_question ==
            \E i \in 1..Len(msgs) : MessageInfo(msgs[i]).has_question
        has_topic ==
            \E i \in 1..Len(msgs) : MessageInfo(msgs[i]).has_topic
        long_enough == Len(combined) >= GENERAL_MIN_LENGTH
    IN (has_question \/ has_topic \/ long_enough) \/ s.turn_count >= 2

\* "ready" of the dict that _assess_readiness returns
assess_readiness(s, stype) ==
    IF stype = "intake" THEN intake_ready(s)
    ELSE IF stype = "follow_up" THEN follow_up_ready(s)
    ELSE general_ready(s)

handle_urgent_symptoms(s) ==
    SessionResult("process_message",
                  URGENT_RESPONSE(Join(s.urgent_flags, ", ")),
                  FALSE, s, TRUE, s.urgent_flags)

build_handoff_message(stype) ==
    IF stype = "intake" THEN "Thank you for sharing that information!"
    ELSE IF stype = "follow_up" THEN "Thanks for the update!"
    ELSE "Let me look into that for you..."

prepare_for_crew(s, stype) ==
    SessionResult("process_message", build_handoff_message(stype),
                  TRUE, s, FALSE, <<>>)

\* the state, the result and the _ack_index that _continue_collection leaves
continue_collection(s, stype, ack) ==
    LET q == get_next_question(s, stype, ack)
    IN IF q.question \notin {NONE, ""}
       THEN [state |-> add_agent_message(s, q.question, q.field),
             result |-> SessionResult("process_message", q.question,
                                      FALSE, s, FALSE, <<>>),
             ack_index |-> q.ack_index]
       ELSE [state |-> s,
             result |-> SessionResult("process_message",
                                      "Is there anything else you'd like to share?",
                                      FALSE, s, FALSE, <<>>),
             ack_index |-> q.ack_index]

\* process_message that assesses readiness before it looks at the urgent flags
ProcessMessageReadyFirst(message, reply) ==
    /\ LET s1 == add_user_message(state, message)
           extraction == extract_all(llm_available, message,
                                     s1.last_question_field, reply)
           s2 == process_extraction(s1, extraction, message)
       IN IF assess_readiness(s2, session_type)
          THEN /\ state' = s2
               /\ result' = prepare_for_crew(s2, session_type)
               /\ ack_index' = ack_index
          ELSE IF has_urgent_symptoms(s2)
          THEN /\ state' = s2
               /\ result' = handle_urgent_symptoms(s2)
               /\ ack_index' = ack_index
          ELSE LET c == continue_collection(s2, session_type, ack_index)
               IN /\ state' = c.state
                  /\ result' = c.result
                  /\ ack_index' = c.ack_index
    /\ ready_seen' = (ready_seen \/ result'.ready_for_crew)
    /\ UNCHANGED <<manager_vars, calls, session_type, llm_available>>

\* process_message(message); reply is what the LLM answers if it is called
ProcessMessage(message, reply) ==
    /\ LET s1 == add_user_message(state, message)
           extraction == extract_all(llm_available, message,
                                     s1.last_question_field, reply)
           s2 == process_extraction(s1, extraction, message)
       IN IF has_urgent_symptoms(s2)
          THEN /\ state' = s2
               /\ result' = handle_urgent_symptoms(s2)
               /\ ack_index' = ack_index
          ELSE IF assess_readiness(s2, session_type)
          THEN /\ state' = s2
               /\ result' = prepare_for_crew(s2, session_type)
               /\ ack_index' = ack_index
          ELSE LET c == continue_collection(s2, session_type, ack_index)
               IN /\ state' = c.state
                  /\ result' = c.result
                  /\ ack_index' = c.ack_index
    /\ ready_seen' = (ready_seen \/ result'.ready_for_crew)
    /\ UNCHANGED <<manager_vars, calls, session_type, llm_available>>

\* hasattr(self, '_last_crew_hash') is false
NoHash == {<<NONE, NONE>>}

\* hash(frozenset((k, str(v.value)) ...)); the values are strings already
ContextHash(s) ==
    {<<s.collected_fields[i].name, s.collected_fields[i].value>> :
        i \in 1..Len(s.collected_fields)}

CrewDecision(run, reason, hash) ==
    [run |-> run, reason |-> reason, last_crew_hash |-> hash]

\* should_run_full_crew that neither compares nor stores the hash
should_run_full_crew_no_cache(s, stype, hash) ==
    LET required == IF stype = "intake" THEN 4 ELSE 1
        collected_count == Len(s.collected_fields)
        missing_critical == {"age", "sex"} \ Keys(s.collected_fields)
        messages == get_user_messages(s)
    IN IF collected_count < required
       THEN CrewDecision(FALSE, "Insufficient data: " \o ToString(collected_count)
                                \o "/" \o ToString(required) \o " fields collected", hash)
       ELSE IF stype = "intake" /\ missing_critical # {}
       THEN CrewDecision(FALSE, "Missing critical fields", hash)
       ELSE IF stype = "follow_up" /\ Len(messages) < 2
       THEN CrewDecision(FALSE, "Need more context for follow-up analysis", hash)
       ELSE IF stype = "follow_up" /\ SumWords(messages) < 10
       THEN CrewDecision(FALSE, "Responses too brief for meaningful analysis", hash)
       ELSE CrewDecision(TRUE, "Ready for full analysis", hash)

\* returns (should_run, reason) and the new _last_crew_hash; the reason of
\* the second check is given without the repr of the set of names
should_run_full_crew(s, stype, hash) ==
    LET required == IF stype = "intake" THEN 4 ELSE 1
        collected_count == Len(s.collected_fields)
        missing_critical == {"age", "sex"} \ Keys(s.collected_fields)
        messages == get_user_messages(s)
        context_hash == ContextHash(s)
    IN IF collected_count < required
       THEN CrewDecision(FALSE, "Insufficient data: " \o ToString(collected_count)
                                \o "/" \o ToString(required) \o " fields collected", hash)
       ELSE IF stype = "intake" /\ missing_critical # {}
       THEN CrewDecision(FALSE, "Missing critical fields", hash)
       ELSE IF stype = "follow_up" /\ Len(messages) < 2
       THEN CrewDecision(FALSE, "Need more context for follow-up analysis", hash)
       ELSE IF stype = "follow_up" /\ SumWords(messages) < 10
       THEN CrewDecision(FALSE, "Responses too brief for meaningful analysis", hash)
       ELSE IF hash = context_hash
       THEN CrewDecision(FALSE, "Data unchanged since last analysis", hash)
       ELSE CrewDecision(TRUE, "Ready for full analysis", context_hash)

GetWelcomeMessage ==
    /\ LET w == welcome_message(session_type)
       IN /\ state' = [state EXCEPT !.last_question_field = w.field]
          /\ result' = SessionResult("get_welcome_message", w.welcome,
                                     FALSE, state, FALSE, <<>>)
    /\ UNCHANGED <<manager_vars, calls, session_type, llm_available, ack_index, ready_seen>>

CompleteSession ==
    /\ state' = complete_session_state(state)
    /\ result' = SessionResult("complete_session", "crew result",
                               FALSE, state, FALSE, <<>>)
    /\ UNCHANGED <<manager_vars, calls, session_type, llm_available, ack_index, ready_seen>>

Reset ==
    /\ state' = reset_state(state)
    /\ result' = SessionResult("reset", "", FALSE, state', FALSE, <<>>)
    /\ ready_seen' = FALSE
    /\ UNCHANGED <<manager_vars, calls, session_type, llm_available, ack_index>>

\* ------------------------------------------------------------------------
\* What the LLM may answer in the model
\* ------------------------------------------------------------------------
LLMFailure == [ok |-> FALSE, fields |-> <<>>, implied |-> <<>>]

LLMField(name, value, confidence, needs_clarification) ==
    [name |-> name, value |-> value, confidence |-> confidence,
     needs_clarification |-> needs_clarification]

LLMReply(fields, implied) == [ok |-> TRUE, fields |-> fields, implied |-> implied]

LLMProfile ==
    LLMReply(<< LLMField("age", "45", 100, FALSE),
                LLMField("sex", "male", 100, FALSE),
                LLMField("conditions", "none", 90, FALSE) >>, <<>>)

LLMSmokingLow ==
    LLMReply(<< LLMField("smoking", "no", 30, FALSE),
                LLMField("diet", NONE, 70, FALSE) >>, <<>>)

LLMAlcoholUnclear ==
    LLMReply(<< LLMField("alcohol", "yes", 70, TRUE) >>,
             << [name |-> "stress_level", value |-> "elevated"] >>)

Input(message, reply) == [message |-> message, reply |-> reply]

\* inputs that leave the fields alone: what the user can always say
PlainInputs ==
    { Input("hello", LLMFailure),
      Input("hello", LLMReply(<<>>, <<>>)),
      Input("i have chest pain", LLMFailure) }

\* inputs that carry fields, through the regex fallback or through the LLM
InformativeInputs ==
    { Input("i am a 45 year old male with diabetes", LLMFailure),
      Input("i am a 45 year old male with diabetes", LLMProfile),
      Input("i don't smoke", LLMFailure),
      Input("i don't smoke", LLMSmokingLow),
      Input("i don't smoke or drink, i eat rice and walk daily", LLMFailure),
      Input("yes", LLMFailure),
      Input("yes", LLMAlcoholUnclear),
      Input("i have chest pain", LLMAlcoholUnclear) }

\* ------------------------------------------------------------------------
\* Spec: one session driven through process_message
\* ------------------------------------------------------------------------
\* the first SessionManager of the process, made where an API key is set:
\* get_extractor makes the extractor with this manager's use_llm (without a
\* key the extractor works as one made with use_llm = False does)
Init ==
    /\ session_type \in SessionTypes
    /\ llm_available \in BOOLEAN
    /\ state = ConversationState(session_type)
    /\ ack_index = 0
    /\ result = SessionResult("init", "", FALSE, state, FALSE, <<>>)
    /\ ready_seen = FALSE
    /\ calls = [w \in Workers |-> Submitted]
    /\ last_crew_hash = NoHash
    /\ analysed = FALSE
    /\ sessions = {}
    /\ memory = <<>>
    /\ use_llm = llm_available

Welcome ==
    /\ state.turn_count = 0
    /\ result.op \in {"init", "reset"}
    /\ GetWelcomeMessage

Converse ==
    /\ state.turn_count < MaxTurn
    /\ \E in \in PlainInputs : ProcessMessage(in.message, in.reply)

Inform ==
    /\ state.turn_count < MaxInformativeTurns
    /\ \E in \in InformativeInputs : ProcessMessage(in.message, in.reply)

Next ==
    \/ Welcome
    \/ Converse
    \/ Inform

Spec == Init /\ [][Next]_vars

\* ------------------------------------------------------------------------
\* Properties of process_message (checked under Spec)
\* ------------------------------------------------------------------------
LastUserMessage(s) ==
    LET msgs == get_user_messages(s) IN msgs[Len(msgs)]

IsUrgentResult(r, s) ==
    /\ r.has_urgent_symptoms
    /\ ~r.ready_for_crew
    /\ r.response = URGENT_RESPONSE(Join(s.urgent_flags, ", "))

\* C1 as stated: whatever the messages, an intake session has returned
\* ready = true by turn 12 and a follow-up session by turn 7.
C1_ReadyByMaxTurnsAnyInput ==
    ( /\ result.op = "process_message"
      /\ \/ session_type = "intake" /\ state.turn_count >= 12
         \/ session_type = "follow_up" /\ state.turn_count >= 7 )
    => ready_seen

\* C1 amended: in a session with no urgent flag, every process_message from
\* turn INTAKE_MAX_TURNS (intake) or FOLLOW_UP_MAX_TURNS (follow-up) on
\* returns ready = true, whatever was recognised in the messages.
C1_ReadyByMaxTurnsUnlessUrgent ==
    ( /\ result.op = "process_message"
      /\ state.urgent_flags = <<>>
      /\ \/ session_type = "intake" /\ state.turn_count >= INTAKE_MAX_TURNS
         \/ session_type = "follow_up" /\ state.turn_count >= FOLLOW_UP_MAX_TURNS )
    => (result.ready_for_crew /\ ready_seen)

\* an intake session reaches turn INTAKE_MAX_TURNS with nothing recognised
C1_Witness ==
    /\ result.op = "process_message"
    /\ session_type = "intake"
    /\ state.turn_count = INTAKE_MAX_TURNS
    /\ state.collected_fields = <<>>
    /\ state.urgent_flags = <<>>
    /\ result.ready_for_crew

\* C2: a message with an urgent-symptom phrase makes that very call return
\* has_urgent_symptoms = true, ready = false and the urgent-care response,
\* with the detected symptoms reported.
C2_UrgentShortCircuit ==
    ( /\ result.op = "process_message"
      /\ MessageInfo(LastUserMessage(state)).urgent # {} )
    => /\ IsUrgentResult(result, state)
       /\ \A symptom \in MessageInfo(LastUserMessage(state)).urgent :
              InSeq(symptom, result.urgent_symptoms)

\* an urgent message arrives when the session would otherwise be ready:
\* critical fields collected, score reached and the turn limit passed
C2_Witness ==
    /\ result.op = "process_message"
    /\ session_type = "intake"
    /\ MessageInfo(LastUserMessage(state)).urgent # {}
    /\ has_critical_fields(state)
    /\ count_collected_fields(state) >= 4 * INTAKE_MIN_FIELDS
    /\ state.turn_count >= INTAKE_MAX_TURNS
    /\ result.has_urgent_symptoms

C5_ClarificationEnds ==
    \A i \in 1..Len(state.collected_fields) :
        LET f == state.collected_fields[i]
        IN ( /\ result.op = "process_message"
             /\ state.urgent_flags = <<>>
             /\ f.turn_number = state.turn_count
             /\ Attempts(state, f.name) = state.turn_count
             /\ Attempts(state, f.name) >= MAX_CLARIFICATIONS_PER_FIELD )
           => /\ f.confidence = LOW
              /\ ~InSeq(f.name, state.ambiguous_fields)
              /\ result.response #
                     "I need a bit more detail: " \o get_clarifying_question(f.name)

\* C7: in an intake session with no urgent flag and below INTAKE_MAX_TURNS,
\* process_message returns ready = true exactly when the critical fields are
\* collected and the score is at least INTAKE_MIN_FIELDS.
C7_ReadyIffEnoughBelowMaxTurns ==
    ( /\ result.op = "process_message"
      /\ session_type = "intake"
      /\ state.urgent_flags = <<>>
      /\ state.turn_count < INTAKE_MAX_TURNS )
    => ( result.ready_for_crew
         <=> ( /\ has_critical_fields(state)
               /\ count_collected_fields(state) >= 4 * INTAKE_MIN_FIELDS ) )

\* the gate opens below INTAKE_MAX_TURNS with the score exactly at the minimum
C7_Witness ==
    /\ result.op = "process_message"
    /\ session_type = "intake"
    /\ state.urgent_flags = <<>>
    /\ state.turn_count < INTAKE_MAX_TURNS
    /\ has_critical_fields(state)
    /\ count_collected_fields(state) = 4 * INTAKE_MIN_FIELDS
    /\ result.ready_for_crew

\* ------------------------------------------------------------------------
\* SpecLife: the whole interface of SessionManager, in any order
\* ------------------------------------------------------------------------
LifeConverse ==
    /\ state.turn_count < MaxTurn
    /\ ack_index < MaxAck
    /\ \E in \in PlainInputs : ProcessMessage(in.message, in.reply)

\* the first message of a session may carry the critical fields
LifeInform ==
    /\ state.turn_count = 0
    /\ ack_index < MaxAck
    /\ ProcessMessage("i am a 45 year old male with diabetes", LLMFailure)

Complete ==
    /\ state.sessions_completed < MaxSessions
    /\ CompleteSession

LifeNext ==
    \/ Welcome
    \/ LifeConverse
    \/ LifeInform
    \/ Complete
    \/ Reset

SpecLife == Init /\ [][LifeNext]_vars

IsPrefix(a, b) == Len(a) <= Len(b) /\ SubSeq(b, 1, Len(a)) = a

\* C3: once an urgent flag is set, no call other than reset removes a flag,
\* and every process_message returns the urgent response with ready = false,
\* also from the turn limit on.
C3_UrgentAbsorbing ==
    [][ (state.urgent_flags # <<>> /\ result'.op # "reset")
        => /\ IsPrefix(state.urgent_flags, state'.urgent_flags)
           /\ result'.op = "process_message" => IsUrgentResult(result', state')
      ]_vars

\* an urgent intake session with the critical fields and the score is still
\* answered with the urgent response past the turn limit, after a completion
C3_Witness ==
    /\ result.op = "process_message"
    /\ session_type = "intake"
    /\ state.turn_count > INTAKE_MAX_TURNS
    /\ state.sessions_completed > 0
    /\ state.urgent_flags # <<>>
    /\ MessageInfo(LastUserMessage(state)).urgent = {}
    /\ has_critical_fields(state)
    /\ result.has_urgent_symptoms
    /\ ~result.ready_for_crew

\* ------------------------------------------------------------------------
\* ConversationState called directly (conversation_state.py)
\* ------------------------------------------------------------------------
\* what a direct call leaves in result: the call, its arguments, what the
\* field held before a set_field, and the messages handed to the
\* add_user_message calls made in a row up to this one
StateCall(op, name, value, confidence, before, sent) ==
    [op |-> op, name |-> name, value |-> value, confidence |-> confidence,
     before |-> before, sent |-> sent]

AddUserMessage(message) ==
    /\ state' = add_user_message(state, message)
    /\ result' = StateCall("add_user_message", NONE, NONE, NONE, NONE,
                           IF result.op = "add_user_message"
                           THEN Append(result.sent, message)
                           ELSE <<message>>)
    /\ UNCHANGED <<manager_vars, calls, session_type, llm_available, ack_index, ready_seen>>

SetField(name, value, confidence, clarifying_question) ==
    /\ state' = set_field(state, name, value, confidence, "", clarifying_question)
    /\ result' = StateCall("set_field", name, value, confidence,
                           get_field_value(state, name), <<>>)
    /\ UNCHANGED <<manager_vars, calls, session_type, llm_available, ack_index, ready_seen>>

MarkAmbiguous(name, clarifying_question) ==
    /\ state' = mark_ambiguous(state, name, clarifying_question)
    /\ result' = StateCall("mark_ambiguous", name, NONE, NONE, NONE, <<>>)
    /\ UNCHANGED <<manager_vars, calls, session_type, llm_available, ack_index, ready_seen>>

\* ------------------------------------------------------------------------
\* SpecState: fields set and marked ambiguous directly
\* ------------------------------------------------------------------------
StateFields == {"age", "alcohol"}

StateValues == {"45", "yes"}

\* MEDIUM is stored as HIGH is, and weighs the same
StateConfidences == {HIGH, LOW, NEEDS_CLARIFICATION}

StateSend ==
    /\ state.turn_count < MaxStateTurn
    /\ AddUserMessage("hello")

\* clarifying_question keeps its default, None
StateSet ==
    \E name \in StateFields, value \in StateValues, confidence \in StateConfidences :
        SetField(name, value, confidence, NONE)

StateMark ==
    \E name \in StateFields :
        /\ Attempts(state, name) < MaxMarks
        /\ MarkAmbiguous(name, get_clarifying_question(name))

StateNext ==
    \/ StateSend
    \/ StateSet
    \/ StateMark

SpecState == Init /\ [][StateNext]_vars

\* ------------------------------------------------------------------------
\* Properties of set_field and mark_ambiguous (checked under SpecState)
\* ------------------------------------------------------------------------
ConfidenceOf(s, name) ==
    IF HasKey(s.collected_fields, name)
    THEN DictGet(s.collected_fields, name).confidence
    ELSE NONE

C10_SetFieldOverwritesOnlyItsField ==
    [][ result'.op = "set_field"
        => LET f == result'.name
               holds(x) == x.name = f
           IN /\ get_field_value(state', f) = result'.value
              /\ ConfidenceOf(state', f) = result'.confidence
              /\ Len(SelectSeq(state'.collected_fields, holds)) = 1
              /\ \A g \in Keys(state.collected_fields) \cup Keys(state'.collected_fields) :
                     g # f => /\ get_field_value(state', g) = get_field_value(state, g)
                              /\ ConfidenceOf(state', g) = ConfidenceOf(state, g)
      ]_vars

\* a set_field has just replaced another value of its field, with a lower
\* confidence, while a second field is collected
C10_Witness ==
    /\ result.op = "set_field"
    /\ result.before \notin {NONE, result.value}
    /\ get_field_value(state, result.name) = result.value
    /\ result.confidence = LOW
    /\ Len(state.collected_fields) = 2

\* ------------------------------------------------------------------------
\* SpecRing: add_user_message called in a row on a fresh state
\* ------------------------------------------------------------------------
RingMessages == {"hello", "yes"}

\* the messages handed to add_user_message so far
Sent == IF result.op = "add_user_message" THEN result.sent ELSE <<>>

CountOf(message, seq) == Cardinality({i \in 1..Len(seq) : seq[i] = message})

RingSend ==
    /\ state.turn_count < MaxSends
    /\ \E message \in RingMessages :
           /\ message = "yes" => CountOf("yes", Sent) < MaxYes
           /\ AddUserMessage(message)

RingNext == RingSend

SpecRing == Init /\ [][RingNext]_vars

Min(a, b) == IF a < b THEN a ELSE b

\* C8: after n add_user_message calls on a fresh state the log holds exactly
\* the last min(n, 20) messages sent, as user entries in arrival order, each
\* with the turn it arrived at.
C8_LastTwentyInArrivalOrder ==
    LET n == Len(Sent)
        k == Min(n, MAX_MESSAGES)
    IN /\ state.turn_count = n
       /\ Len(state.messages) = k
       /\ \A i \in 1..k :
              state.messages[i] = [role |-> "user",
                                   content |-> Sent[n - k + i],
                                   turn |-> n - k + i]

\* 25 messages sent: the log holds 20, the first 5 are gone, and a "yes"
\* sent among the last 20 is where it arrived
C8_Witness ==
    /\ Len(Sent) = 25
    /\ Len(state.messages) = MAX_MESSAGES
    /\ state.messages[1].turn = 6
    /\ Sent[3] = "yes"
    /\ Sent[10] = "yes"
    /\ state.messages[5].content = "yes"
    /\ CountOf("yes", get_user_messages(state)) = 1

\* ------------------------------------------------------------------------
\* SpecLog: a session of unrecognised messages, completed at some point
\* ------------------------------------------------------------------------
LogConverse ==
    /\ state.turn_count < MaxLogTurn
    /\ ProcessMessage("hello", LLMFailure)

LogNext ==
    \/ Welcome
    \/ LogConverse
    \/ Complete

SpecLog == Init /\ [][LogNext]_vars

\* C9 as stated: the message log never holds more than MAX_MESSAGES entries.
C9_LogNeverOverTwenty == Len(state.messages) <= MAX_MESSAGES

\* ------------------------------------------------------------------------
\* Completion (checked under SpecLife)
\* ------------------------------------------------------------------------
\* C11 as stated: once complete_session has been applied, a process_message
\* changes neither the collected fields nor the turn count, and returns
\* neither a question nor a handoff.
C11_CompletedIsTerminal ==
    [][ (state.sessions_completed > 0 /\ result'.op = "process_message")
        => /\ state'.collected_fields = state.collected_fields
           /\ state'.turn_count = state.turn_count
           /\ state'.last_question_field = state.last_question_field
           /\ ~result'.ready_for_crew
      ]_vars

\* C12 as stated: complete_session counts a completion and appends the
\* marker only when the latest process_message returned ready = true, and
\* only once.
C12_CompletedOnlyFromReady ==
    [][ (result'.op = "complete_session"
         /\ \/ state'.sessions_completed # state.sessions_completed
            \/ state'.messages # state.messages)
        => /\ result.op = "process_message"
           /\ result.ready_for_crew
           /\ state.sessions_completed = 0
      ]_vars

\* ------------------------------------------------------------------------
\* SpecPool: the orchestrator runs MaxCalls process_message calls of one
\* session id on its thread pool, with no lock; a thread may be switched
\* between any two reads or writes of the shared ConversationState
\* ------------------------------------------------------------------------
\* process_message from the extraction on, add_user_message being done
process_after_add(s1, message, reply) ==
    LET extraction == extract_all(llm_available, message,
                                  s1.last_question_field, reply)
        s2 == process_extraction(s1, extraction, message)
    IN IF has_urgent_symptoms(s2)
       THEN [state |-> s2, result |-> handle_urgent_symptoms(s2),
             ack_index |-> ack_index]
       ELSE IF assess_readiness(s2, session_type)
       THEN [state |-> s2, result |-> prepare_for_crew(s2, session_type),
             ack_index |-> ack_index]
       ELSE continue_collection(s2, session_type, ack_index)

\* self.turn_count += 1, the read
CallLoad(w) ==
    /\ calls[w].pc = "submitted"
    /\ calls' = [calls EXCEPT ![w].pc = "loaded",
                              ![w].turn_count = state.turn_count]
    /\ UNCHANGED <<manager_vars, state, session_type, llm_available, ack_index, result, ready_seen>>

\* self.turn_count += 1, the write
CallStore(w) ==
    /\ calls[w].pc = "loaded"
    /\ state' = [state EXCEPT !.turn_count = calls[w].turn_count + 1]
    /\ calls' = [calls EXCEPT ![w].pc = "stored"]
    /\ UNCHANGED <<manager_vars, session_type, llm_available, ack_index, result, ready_seen>>

\* the entry {"role": "user", ..., "turn": self.turn_count} is built
CallBuild(w) ==
    /\ calls[w].pc = "stored"
    /\ calls' = [calls EXCEPT ![w].pc = "built",
                              ![w].entry_turn = state.turn_count]
    /\ UNCHANGED <<manager_vars, state, session_type, llm_available, ack_index, result, ready_seen>>

\* self.messages.append(entry); self._prune_messages()
CallAppend(w) ==
    /\ calls[w].pc = "built"
    /\ state' = prune_messages(
                    [state EXCEPT !.messages =
                         Append(@, [role |-> "user", content |-> "hello",
                                    turn |-> calls[w].entry_turn])])
    /\ calls' = [calls EXCEPT ![w].pc = "appended"]
    /\ UNCHANGED <<manager_vars, session_type, llm_available, ack_index, result, ready_seen>>

\* the rest of process_message, up to its return
CallReturn(w) ==
    /\ calls[w].pc = "appended"
    /\ LET c == process_after_add(state, "hello", LLMFailure)
       IN /\ state' = c.state
          /\ result' = c.result
          /\ ack_index' = c.ack_index
    /\ ready_seen' = (ready_seen \/ result'.ready_for_crew)
    /\ calls' = [calls EXCEPT ![w].pc = "returned"]
    /\ UNCHANGED <<manager_vars, session_type, llm_available>>

PoolNext ==
    \/ \E w \in Workers : CallLoad(w)
    \/ \E w \in Workers : CallStore(w)
    \/ \E w \in Workers : CallBuild(w)
    \/ \E w \in Workers : CallAppend(w)
    \/ \E w \in Workers : CallReturn(w)

SpecPool == Init /\ [][PoolNext]_vars

AllReturned == \A w \in Workers : calls[w].pc = "returned"

UserTurns(s) ==
    LET user(m) == m.role = "user"
        sel == SelectSeq(s.messages, user)
    IN [i \in 1..Len(sel) |-> sel[i].turn]

\* C13 as stated: when the N concurrent calls have all returned, turn_count
\* is N and the log holds N user messages with the turn numbers 1..N, each
\* once.
C13_NoLostUpdate ==
    AllReturned
    => /\ state.turn_count = MaxCalls
       /\ Len(UserTurns(state)) = MaxCalls
       /\ {UserTurns(state)[i] : i \in 1..Len(UserTurns(state))} = 1..MaxCalls

\* ------------------------------------------------------------------------
\* SpecShared: one session among others. Every SessionManager of the process
\* holds the same QuestionGenerator (get_question_generator), so a
\* process_message of another session that reaches the generic
\* acknowledgment advances the _ack_index this session reads.
\* ------------------------------------------------------------------------
SharedInputs ==
    { Input("hello", LLMFailure),
      Input("i am a 45 year old male with diabetes", LLMFailure) }

SharedConverse ==
    /\ state.turn_count < MaxSharedTurn
    /\ \E in \in SharedInputs : ProcessMessage(in.message, in.reply)

\* process_message of another session, as far as this session can see it
OtherSessionConverse ==
    /\ ack_index < MaxAck
    /\ ack_index' = ack_index + 1
    /\ UNCHANGED <<manager_vars, state, session_type, llm_available, result, ready_seen, calls>>

SharedNext ==
    \/ SharedConverse
    \/ OtherSessionConverse

SpecShared == Init /\ [][SharedNext]_vars

\* the session after the messages of history, the LLM failing on each, when
\* no other session has used the question generator
RECURSIVE RunAlone(_)
RunAlone(history) ==
    IF history = <<>>
    THEN [state |-> ConversationState(session_type),
          result |-> SessionResult("init", "", FALSE,
                                   ConversationState(session_type), FALSE, <<>>),
          ack_index |-> 0]
    ELSE LET before == RunAlone(SubSeq(history, 1, Len(history) - 1))
             message == history[Len(history)]
             s1 == add_user_message(before.state, message)
             extraction == extract_all(llm_available, message,
                                       s1.last_question_field, LLMFailure)
             s2 == process_extraction(s1, extraction, message)
         IN IF has_urgent_symptoms(s2)
            THEN [state |-> s2, result |-> handle_urgent_symptoms(s2),
                  ack_index |-> before.ack_index]
            ELSE IF assess_readiness(s2, session_type)
            THEN [state |-> s2, result |-> prepare_for_crew(s2, session_type),
                  ack_index |-> before.ack_index]
            ELSE continue_collection(s2, session_type, before.ack_index)

\* C14 as stated: what process_message returns and collects is what the
\* session's own messages give when the session runs alone, whatever other
\* sessions did in between.
C14_OwnHistoryOnly ==
    result.op = "process_message"
    => LET alone == RunAlone(get_user_messages(state))
       IN /\ result.response = alone.result.response
          /\ result.ready_for_crew = alone.result.ready_for_crew
          /\ state.collected_fields = alone.state.collected_fields

\* ------------------------------------------------------------------------
\* SpecExtract: extract_all on one message
\* ------------------------------------------------------------------------
\* the LLM call times out: the client raises
LLMTimeout == [ok |-> FALSE, fields |-> <<>>, implied |-> <<>>, error |-> "timeout"]

\* the LLM answers something that is no JSON object of the asked shape:
\* json.loads or the conversion raises
LLMMalformed == [ok |-> FALSE, fields |-> <<>>, implied |-> <<>>, error |-> "malformed"]

LLMOutcomes ==
    { LLMFailure, LLMTimeout, LLMMalformed,
      LLMReply(<<>>, <<>>), LLMProfile, LLMAlcoholUnclear }

QuestionFields == {NONE, "smoking", "alcohol", "conditions"}

\* the number of requests extract_all sends to the LLM client: one in
\* _extract_with_llm, which is entered when the client is there
llm_calls(available) == IF available THEN 1 ELSE 0

Extract(message, last_question_field, reply) ==
    /\ result' = [op |-> "extract_all",
                  message |-> message,
                  last_question_field |-> last_question_field,
                  reply |-> reply,
                  llm_calls |-> llm_calls(llm_available),
                  extraction |-> extract_all(llm_available, message,
                                             last_question_field, reply)]
    /\ UNCHANGED <<manager_vars, state, session_type, llm_available, ack_index, ready_seen, calls>>

ExtractAny ==
    \E message \in AllMessages, last_question_field \in QuestionFields :
        \E reply \in LLMOutcomes : Extract(message, last_question_field, reply)

ExtractNext == ExtractAny

SpecExtract == Init /\ [][ExtractNext]_vars

\* C15: extract_all returns a result for every message and every outcome of
\* the LLM call; when the LLM is not there or its call fails, the result is
\* the one of the next layer the code has, the regex patterns.
C15_ExtractAllAlwaysReturns ==
    result.op = "extract_all"
    => /\ result.extraction # Raised
       /\ DOMAIN result.extraction = {"fields", "implied", "urgent_symptoms"}
       /\ ~(llm_available /\ result.reply.ok)
          => result.extraction =
                 extract_with_regex(result.message, result.last_question_field,
                                    detect_urgent_symptoms(result.message))

\* the LLM was called and answered no JSON: the fields are the regex ones
C15_Witness ==
    /\ result.op = "extract_all"
    /\ llm_available
    /\ result.llm_calls = 1
    /\ result.reply = LLMMalformed
    /\ Len(result.extraction.fields) = 3
    /\ result.extraction.fields[1].source = "regex"

\* C16: the urgent symptoms extract_all reports for a message are those the
\* patterns find in the raw text, and are the same with the LLM there or not
\* and for every outcome of the LLM call.
C16_UrgentSameOnEveryLayer ==
    result.op = "extract_all"
    => /\ {result.extraction.urgent_symptoms[i] :
               i \in 1..Len(result.extraction.urgent_symptoms)}
              = MessageInfo(result.message).urgent
       /\ \A available \in BOOLEAN, reply \in LLMOutcomes :
              extract_all(available, result.message,
                          result.last_question_field, reply).urgent_symptoms
                  = result.extraction.urgent_symptoms

\* an urgent message whose fields come from the LLM
C16_Witness ==
    /\ result.op = "extract_all"
    /\ result.message = "i have chest pain"
    /\ result.extraction.urgent_symptoms = <<"chest pain">>
    /\ result.extraction.fields # <<>>
    /\ result.extraction.fields[1].source = "llm"

\* ------------------------------------------------------------------------
\* SemanticMatcher (semantic_matcher.py), which extract_all does not call
\* ------------------------------------------------------------------------
SemanticMatch(field_name, value, confidence) ==
    [name |-> field_name, value |-> value, confidence |-> confidence]

\* extract_all_fields(text, context_field) on the messages of MessageTable,
\* with fuzzy matching (no embeddings)
SemanticFields(text, context_field) ==
    CASE text = "i am a 45 year old male with diabetes" ->
           << SemanticMatch("age", "45", 95) >>
      [] text = "i don't smoke" ->
           << SemanticMatch("smoking", "no",
                            IF context_field = "smoking" THEN 100 ELSE 85) >>
      [] text = "yes" /\ context_field = "alcohol" ->
           << SemanticMatch("alcohol", "yes", 100),
              SemanticMatch("smoking", "yes", 100) >>
      [] text = "yes" /\ context_field # "alcohol" ->
           << SemanticMatch("smoking", "yes", 100) >>
      [] text = "none" /\ context_field = "smoking" ->
           << SemanticMatch("smoking", "no", 100),
              SemanticMatch("conditions", "none", 100),
              SemanticMatch("alcohol", "no", 50),
              SemanticMatch("family_history", "none", 100) >>
      [] text = "none" /\ context_field = "alcohol" ->
           << SemanticMatch("alcohol", "no", 100),
              SemanticMatch("conditions", "none", 100),
              SemanticMatch("smoking", "no", 60),
              SemanticMatch("family_history", "none", 100) >>
      [] text = "none" /\ context_field \notin {"smoking", "alcohol"} ->
           << SemanticMatch("conditions", "none", 100),
              SemanticMatch("smoking", "no", 60),
              SemanticMatch("alcohol", "no", 50),
              SemanticMatch("family_history", "none", 100) >>
      [] text = "my father had hypertension" ->
           << SemanticMatch("family_history", text, 90) >>
      [] OTHER -> <<>>

\* the (name, value) pairs of a list of extracted fields or matches
NameValues(fields) == {<<fields[i].name, fields[i].value>> : i \in 1..Len(fields)}

\* C17 as stated: extract_all sends nothing to the LLM for a message of at
\* most 3 words, nor when the semantic matcher gives a field with confidence
\* at least 0.7, and never sends more than one request for a message.
C17_NoLLMForSimpleMessages ==
    result.op = "extract_all"
    => /\ result.llm_calls <= 1
       /\ ( \/ MessageInfo(result.message).words <= 3
            \/ \E i \in 1..Len(SemanticFields(result.message,
                                              result.last_question_field)) :
                   SemanticFields(result.message,
                                  result.last_question_field)[i].confidence >= 70 )
          => result.llm_calls = 0

\* C18 as stated: when the LLM is not there or its call fails, the fields
\* are those of the semantic matcher, and those of the regex patterns only
\* if the semantic matcher gives none.
C18_SemanticThenRegex ==
    (result.op = "extract_all" /\ ~(llm_available /\ result.reply.ok))
    => LET semantic == SemanticFields(result.message, result.last_question_field)
           regex == RegexFields(result.message, result.last_question_field)
       IN NameValues(result.extraction.fields) =
              IF semantic # <<>> THEN NameValues(semantic) ELSE NameValues(regex)

\* ------------------------------------------------------------------------
\* SpecFamily: a session in which the user speaks of a relative
\* ------------------------------------------------------------------------
FamilyInputs ==
    { Input("hello", LLMFailure),
      Input("my father had hypertension", LLMFailure),
      Input("i am a 45 year old male with diabetes", LLMFailure) }

FamilyConverse ==
    /\ state.turn_count < MaxFamilyTurn
    /\ \E in \in FamilyInputs : ProcessMessage(in.message, in.reply)

FamilyNext ==
    \/ Welcome
    \/ FamilyConverse

SpecFamily == Init /\ [][FamilyNext]_vars

\* C19 as stated: a process_message of a message that names a family member
\* together with a condition stores it as family_history and leaves the
\* user's own conditions field as it was.
C19_RelativeNotOwnCondition ==
    [][ (result'.op = "process_message"
         /\ LastUserMessage(state') = "my father had hypertension")
        => /\ has_field(state', "family_history")
           /\ has_field(state', "conditions") = has_field(state, "conditions")
           /\ get_field_value(state', "conditions") = get_field_value(state, "conditions")
      ]_vars

\* ------------------------------------------------------------------------
\* The question asked next (checked under Spec)
\* ------------------------------------------------------------------------
\* C20: in an intake session with no urgent flag and a collected field that
\* is NeedsClarification, get_next_question returns the clarifying question
\* and the name of the first such field, and a process_message that is not
\* ready answers with it; the question of a missing field is not asked.
C20_ClarificationAskedFirst ==
    (session_type = "intake"
     /\ state.urgent_flags = <<>>
     /\ get_fields_needing_clarification(state) # <<>>)
    => LET field == get_fields_needing_clarification(state)[1]
           next == get_next_question(state, session_type, ack_index)
       IN /\ next.question = "I need a bit more detail: " \o field.clarifying_question
          /\ next.field = field.name
          /\ \A i \in 1..Len(FIELD_CONFIGS) : next.question # FIELD_CONFIGS[i].question
          /\ (result.op = "process_message" /\ ~result.ready_for_crew)
             => /\ result.response = next.question
                /\ state.last_question_field = field.name

\* alcohol needs clarification while other fields are missing, and the
\* session has just re-asked about alcohol
C20_Witness ==
    /\ session_type = "intake"
    /\ state.urgent_flags = <<>>
    /\ result.op = "process_message"
    /\ ~result.ready_for_crew
    /\ get_fields_needing_clarification(state) # <<>>
    /\ get_fields_needing_clarification(state)[1].name = "alcohol"
    /\ get_missing_fields(state) # <<>>
    /\ state.last_question_field = "alcohol"
    /\ result.response = "I need a bit more detail: About how many drinks per week?"

\* ------------------------------------------------------------------------
\* SpecQuestion: get_next_question called on states built by direct calls
\* ------------------------------------------------------------------------
AddUrgentFlag(symptom) ==
    /\ state' = add_urgent_flag(state, symptom)
    /\ result' = StateCall("add_urgent_flag", NONE, symptom, NONE, NONE, <<>>)
    /\ UNCHANGED <<manager_vars, calls, session_type, llm_available, ack_index, ready_seen>>

\* the call returns (question, field); _ack_index is the generator's own
GetNextQuestion ==
    LET next == get_next_question(state, session_type, ack_index)
    IN /\ result' = [op |-> "get_next_question",
                     question |-> next.question, field |-> next.field]
       /\ ack_index' = next.ack_index
       /\ UNCHANGED <<manager_vars, calls, state, session_type, llm_available, ready_seen>>

\* the fields a session of each type collects, in the order they are asked
QuestionFieldNames(stype) ==
    IF stype = "intake" THEN [i \in 1..Len(FIELD_CONFIGS) |-> FIELD_CONFIGS[i].name]
    ELSE IF stype = "follow_up"
    THEN [i \in 1..Len(followup_fields) |-> followup_fields[i].name]
    ELSE <<>>

QuestionValues(name) == IF name = "age" THEN {"45", "80"} ELSE {"yes"}

QuestionConfidences(name) ==
    IF name = "alcohol" THEN {HIGH, NEEDS_CLARIFICATION} ELSE {HIGH}

QuestionSend ==
    /\ state.turn_count < MaxQuestionTurn
    /\ state.collected_fields = <<>>
    /\ AddUserMessage("hello")

\* any subset of the fields, each set once, in the order of the table
QuestionSet ==
    LET names == QuestionFieldNames(session_type)
    IN \E i \in 1..Len(names) :
          /\ \A j \in i..Len(names) : ~has_field(state, names[j])
          /\ \E value \in QuestionValues(names[i]),
                confidence \in QuestionConfidences(names[i]) :
                SetField(names[i], value, confidence,
                         IF confidence = NEEDS_CLARIFICATION
                         THEN get_clarifying_question(names[i]) ELSE NONE)

QuestionUrgent ==
    /\ state.urgent_flags = <<>>
    /\ AddUrgentFlag("chest pain")

QuestionAsk ==
    /\ ack_index < MaxQuestionAck
    /\ GetNextQuestion

QuestionNext ==
    \/ QuestionSend
    \/ QuestionSet
    \/ QuestionUrgent
    \/ QuestionAsk

SpecQuestion == Init /\ [][QuestionNext]_vars

IsSuffix(a, b) == Len(a) <= Len(b) /\ SubSeq(b, Len(b) - Len(a) + 1, Len(b)) = a

\* the fields of the table that are not collected and not skipped for age
Remaining(s) ==
    {i \in 1..Len(FIELD_CONFIGS) :
        /\ ~has_field(s, FIELD_CONFIGS[i].name)
        /\ ~(/\ FIELD_CONFIGS[i].skip_if_age_over # 0
             /\ has_field(s, "age")
             /\ IntValue(get_field_value(s, "age")) > FIELD_CONFIGS[i].skip_if_age_over)}

\* C21: in an intake session with no urgent flag and no field needing
\* clarification, get_next_question returns the field with the smallest
\* (priority, order) among the fields not collected and not skipped for age
\* (smoking when the age is over 75), with its question from the table
\* (after the acknowledgement once a turn has passed), never a collected
\* field, and (None, None) exactly when no such field is left.
C21_NextMissingFieldByPriority ==
    (/\ session_type = "intake"
     /\ state.urgent_flags = <<>>
     /\ get_fields_needing_clarification(state) = <<>>)
    => LET next == get_next_question(state, session_type, ack_index)
           left == Remaining(state)
           before(i, j) ==
               \/ FIELD_CONFIGS[i].priority < FIELD_CONFIGS[j].priority
               \/ /\ FIELD_CONFIGS[i].priority = FIELD_CONFIGS[j].priority
                  /\ FIELD_CONFIGS[i].order < FIELD_CONFIGS[j].order
       IN /\ (next.question = NONE /\ next.field = NONE) <=> left = {}
          /\ left # {}
             => /\ \E i \in left :
                      /\ \A j \in left : ~before(j, i)
                      /\ next.field = FIELD_CONFIGS[i].name
                      /\ IsSuffix(FIELD_CONFIGS[i].question, next.question)
                      /\ state.turn_count = 0
                         => next.question = FIELD_CONFIGS[i].question
                /\ ~has_field(state, next.field)
                /\ \A k \in 1..Len(FIELD_CONFIGS) :
                      has_field(state, FIELD_CONFIGS[k].name)
                      => ~IsSuffix(FIELD_CONFIGS[k].question, next.question)
          /\ result.op = "get_next_question" => result.field = next.field

\* age is 80, family history is known, smoking is not: the call skipped
\* smoking and asked about alcohol
C21_Witness ==
    /\ session_type = "intake"
    /\ state.urgent_flags = <<>>
    /\ get_field_value(state, "age") = "80"
    /\ has_field(state, "family_history")
    /\ ~has_field(state, "smoking")
    /\ ~has_field(state, "alcohol")
    /\ result.op = "get_next_question"
    /\ result.field = "alcohol"
    /\ IsSuffix(ConfigOf("alcohol").question, result.question)

\* C22: while an urgent flag is set, get_next_question returns the safety
\* message for the flagged symptoms and no field name, for every session
\* type, whatever fields are missing or need clarification.
C22_UrgentOverridesQuestions ==
    state.urgent_flags # <<>>
    => LET next == get_next_question(state, session_type, ack_index)
       IN /\ next.question = URGENT_RESPONSE(Join(state.urgent_flags, ", "))
          /\ next.field = NONE
          /\ next.ack_index = ack_index
          /\ result.op = "get_next_question"
             => /\ result.question = next.question
                /\ result.field = NONE

\* an intake session with a flag, alcohol needing clarification and fields
\* missing has been asked for its next question
C22_Witness ==
    /\ session_type = "intake"
    /\ state.urgent_flags = <<"chest pain">>
    /\ get_fields_needing_clarification(state) # <<>>
    /\ get_missing_fields(state) # <<>>
    /\ result.op = "get_next_question"
    /\ result.field = NONE
    /\ result.question = URGENT_RESPONSE("chest pain")

\* ------------------------------------------------------------------------
\* SpecCrew: should_run_full_crew called on a manager whose state is built
\* by direct calls
\* ------------------------------------------------------------------------
\* the (field, value) pairs of the collected fields
FieldValuePairs(s) ==
    {<<s.collected_fields[i].name, s.collected_fields[i].value>> :
        i \in 1..Len(s.collected_fields)}

ShouldRunFullCrew ==
    LET decision == should_run_full_crew(state, session_type, last_crew_hash)
    IN /\ result' = [op |-> "should_run_full_crew",
                     run |-> decision.run, reason |-> decision.reason]
       /\ last_crew_hash' = decision.last_crew_hash
       /\ analysed' = (analysed \/ decision.run)
       /\ UNCHANGED <<use_llm, memory, sessions, state, session_type, llm_available, ack_index, ready_seen, calls>>

\* set_field on the manager's state
ManagerSetField(name, value) ==
    /\ state' = set_field(state, name, value, HIGH, "", NONE)
    /\ result' = StateCall("set_field", name, value, HIGH,
                           get_field_value(state, name), <<>>)
    /\ analysed' = (analysed /\ FieldValuePairs(state') = FieldValuePairs(state))
    /\ UNCHANGED <<use_llm, memory, sessions, last_crew_hash, session_type, llm_available, ack_index, ready_seen, calls>>

CrewFieldNames(stype) ==
    IF stype = "intake" THEN <<"age", "sex", "conditions", "smoking", "alcohol">>
    ELSE IF stype = "follow_up" THEN <<"habits_followed", "barriers">>
    ELSE <<"age">>

CrewValues(name) == IF name = "age" THEN {"45", "80"} ELSE {"yes"}

\* new fields in the order of the list, and age set again at any time,
\* all before the first message
CrewSet ==
    LET names == CrewFieldNames(session_type)
    IN /\ state.messages = <<>>
       /\ \E i \in 1..Len(names) :
             /\ \/ \A j \in i..Len(names) : ~has_field(state, names[j])
                \/ names[i] = "age"
             /\ \E value \in CrewValues(names[i]) : ManagerSetField(names[i], value)

\* should_run_full_crew reads the messages of a follow-up session only
CrewSend ==
    /\ session_type = "follow_up"
    /\ state.turn_count < MaxCrewTurn
    /\ IF state.turn_count < MaxCrewLong
       THEN AddUserMessage("i don't smoke or drink, i eat rice and walk daily")
       ELSE AddUserMessage(" ")

CrewNext ==
    \/ CrewSet
    \/ CrewSend
    \/ ShouldRunFullCrew

SpecCrew == Init /\ [][CrewNext]_vars

C24_NoRunWithoutCriticalFields ==
    (/\ session_type = "intake"
     /\ result.op = "should_run_full_crew"
     /\ ~(CRITICAL_FIELDS \subseteq Keys(state.collected_fields)))
    => ~result.run

\* ------------------------------------------------------------------------
\* SpecReset: sessions with unclear answers, reset and run again
\* ------------------------------------------------------------------------
ResetInputs ==
    { Input("hello", LLMFailure),
      Input("yes", LLMAlcoholUnclear) }

ResetConverse ==
    /\ state.turn_count < MaxResetTurn
    /\ ack_index < MaxAck
    /\ Attempts(state, "alcohol") < MaxResetMarks
    /\ \E in \in ResetInputs : ProcessMessage(in.message, in.reply)

ResetNext ==
    \/ Welcome
    \/ ResetConverse
    \/ Reset

SpecReset == Init /\ [][ResetNext]_vars

\* C25: after reset the state holds no messages, fields, implied facts,
\* ambiguous fields, clarification-attempt counts or urgent flags and
\* turn_count is 0, as on a freshly created state of the same session type.
C25_ResetLeavesFreshState ==
    result.op = "reset"
    => /\ state.messages = <<>>
       /\ state.collected_fields = <<>>
       /\ state.implied_fields = <<>>
       /\ state.ambiguous_fields = <<>>
       /\ state.clarification_attempts = <<>>
       /\ state.urgent_flags = <<>>
       /\ state.turn_count = 0

\* ------------------------------------------------------------------------
\* SpecHandoff: ChatOrchestrator.process_message on one session id, the
\* crew run included (orchestrator.py)
\* ------------------------------------------------------------------------
SessionId == "s1"

\* what ChatService.run_session does: return a result, or raise
CrewOutcomes == {"returns", "raises"}

\* what the caller of ChatOrchestrator.process_message gets, with the
\* arguments of the call
OrchestratorReply(message, reply, content, agent_name, raised) ==
    [op |-> "orchestrator.process_message", message |-> message, reply |-> reply,
     content |-> content, agent_name |-> agent_name, raised |-> raised]

\* _get_or_create_session: the manager kept under the id, or a new one
get_or_create_session ==
    IF SessionId \in sessions THEN state ELSE ConversationState(session_type)

\* what manager.process_message returns and leaves on this call
Handoff(message, reply) ==
    process_after_add(add_user_message(get_or_create_session, message), message, reply)

\* process_message that completes the session with the error of a failed crew
HandleMessageCompleteOnFailure(message, reply, crew) ==
    LET p == Handoff(message, reply)
    IN /\ ack_index' = p.ack_index
       /\ ready_seen' = (ready_seen \/ p.result.ready_for_crew)
       /\ IF p.result.has_urgent_symptoms
          THEN /\ state' = p.state
               /\ sessions' = sessions \cup {SessionId}
               /\ result' = OrchestratorReply(message, reply, p.result.response, "safety", FALSE)
          ELSE IF ~p.result.ready_for_crew
          THEN /\ state' = p.state
               /\ sessions' = sessions \cup {SessionId}
               /\ result' = OrchestratorReply(message, reply, p.result.response, "collector", FALSE)
          ELSE /\ state' = complete_session_state(p.state)
               /\ sessions' = sessions \ {SessionId}
               /\ result' = OrchestratorReply(message, reply, "crew result", "crew",
                                              crew = "raises")
       /\ UNCHANGED <<use_llm, memory, last_crew_hash, analysed, calls, session_type, llm_available>>

\* the whole handler; an exception of run_session leaves it before
\* complete_session and before the session is dropped
HandleMessage(message, reply, crew) ==
    LET p == Handoff(message, reply)
    IN /\ ack_index' = p.ack_index
       /\ ready_seen' = (ready_seen \/ p.result.ready_for_crew)
       /\ IF p.result.has_urgent_symptoms
          THEN /\ state' = p.state
               /\ sessions' = sessions \cup {SessionId}
               /\ result' = OrchestratorReply(message, reply, p.result.response, "safety", FALSE)
          ELSE IF ~p.result.ready_for_crew
          THEN /\ state' = p.state
               /\ sessions' = sessions \cup {SessionId}
               /\ result' = OrchestratorReply(message, reply, p.result.response, "collector", FALSE)
          ELSE IF crew = "raises"
          THEN /\ state' = p.state
               /\ sessions' = sessions \cup {SessionId}
               /\ result' = OrchestratorReply(message, reply, NONE, NONE, TRUE)
          ELSE /\ state' = complete_session_state(p.state)
               /\ sessions' = sessions \ {SessionId}
               /\ result' = OrchestratorReply(message, reply, "crew result", "crew", FALSE)
       /\ UNCHANGED <<use_llm, memory, last_crew_hash, analysed, calls, session_type, llm_available>>

HandoffInputs ==
    { Input("hello", LLMFailure),
      Input("i have chest pain", LLMFailure),
      Input("i am a 45 year old male with diabetes", LLMFailure),
      Input("i don't smoke", LLMFailure) }

HandoffConverse ==
    /\ get_or_create_session.turn_count < MaxHandoffTurn
    /\ ack_index < MaxAck
    /\ \E in \in HandoffInputs, crew \in CrewOutcomes :
          HandleMessage(in.message, in.reply, crew)

HandoffNext == HandoffConverse

SpecHandoff == Init /\ [][HandoffNext]_vars

\* C26: when the crew run fails after a handoff, the caller gets the
\* failure and the session is not completed: complete_session is not
\* applied (no count, no marker), the collected fields are those the
\* handoff had, and the manager is kept under its session id.
C26_CrewFailureLeavesSessionOpen ==
    [][(result'.op = "orchestrator.process_message" /\ result'.raised)
       => LET p == Handoff(result'.message, result'.reply)
          IN /\ p.result.ready_for_crew
             /\ result'.content = NONE
             /\ state'.sessions_completed = get_or_create_session.sessions_completed
             /\ \A i \in 1..Len(state'.messages) : state'.messages[i].role # "system"
             /\ state'.collected_fields = p.state.collected_fields
             /\ SessionId \in sessions']_vars

\* a handoff with collected fields whose crew run failed
C26_Witness ==
    /\ result.op = "orchestrator.process_message"
    /\ result.raised
    /\ state.collected_fields # <<>>
    /\ state.sessions_completed = 0
    /\ SessionId \in sessions

\* ------------------------------------------------------------------------
\* SpecSave: complete_session with the save to memory (session_manager.py)
\* ------------------------------------------------------------------------
\* the store_memory calls of _save_to_memory, in order; no patterns are
\* detected in these sessions, and session_date is left out
memory_records(s, stype) ==
    LET profile == [type |-> "profile", session_type |-> stype,
                    fields |-> FieldValuePairs(s),
                    turn_count |-> s.turn_count]
        summary == [type |-> "conversation", session_type |-> stype,
                    fields |-> Keys(s.collected_fields),
                    turn_count |-> s.turn_count]
    IN IF stype = "intake" THEN <<profile, summary>> ELSE <<summary>>

\* _save_to_memory without its try / except
save_to_memory_uncaught(s, stype, stored, succeed) ==
    LET records == memory_records(s, stype)
    IN [memory |-> stored \o SubSeq(records, 1, Min(succeed, Len(records))),
        failed |-> succeed < Len(records),
        raised |-> succeed < Len(records)]

\* _save_to_memory when the first `succeed` calls of store_memory go through
\* and the next one raises; SemanticMemory() raising is succeed = 0
save_to_memory(s, stype, stored, succeed) ==
    LET records == memory_records(s, stype)
    IN [memory |-> stored \o SubSeq(records, 1, Min(succeed, Len(records))),
        failed |-> succeed < Len(records),
        raised |-> FALSE]

\* complete_session(crew_result): the state, the memory, and what is returned
complete_session(s, stype, stored, succeed) ==
    LET s1 == complete_session_state(s)
        saved == save_to_memory(s1, stype, stored, succeed)
    IN [state |-> s1,
        memory |-> saved.memory,
        save_failed |-> saved.failed,
        raised |-> saved.raised,
        response |-> IF saved.raised THEN NONE ELSE "crew result"]

CompleteSessionSaving(succeed) ==
    LET c == complete_session(state, session_type, memory, succeed)
    IN /\ state' = c.state
       /\ memory' = c.memory
       /\ result' = [op |-> "complete_session", response |-> c.response,
                     save_failed |-> c.save_failed, raised |-> c.raised]
       /\ UNCHANGED <<use_llm, last_crew_hash, analysed, sessions, calls, session_type,
                      llm_available, ack_index, ready_seen>>

SaveInputs ==
    { Input("hello", LLMFailure),
      Input("i am a 45 year old male with diabetes", LLMFailure) }

SaveConverse ==
    /\ state.turn_count < MaxSaveTurn
    /\ ack_index < MaxAck
    /\ \E in \in SaveInputs : ProcessMessage(in.message, in.reply)

SaveComplete ==
    /\ state.sessions_completed < MaxSessions
    /\ \E succeed \in 0..MaxStores : CompleteSessionSaving(succeed)

SaveNext ==
    \/ Welcome
    \/ SaveConverse
    \/ SaveComplete

SpecSave == Init /\ [][SaveNext]_vars

\* C27: complete_session returns the final text and completes the session
\* when the save to memory fails: nothing is raised to the caller, and the
\* session state is the one a successful save leaves.
C27_SaveFailureIgnored ==
    [][(result'.op = "complete_session" /\ result'.save_failed)
       => LET saved == complete_session(state, session_type, memory, MaxStores)
          IN /\ ~saved.save_failed
             /\ ~result'.raised
             /\ result'.response = "crew result"
             /\ result'.response = saved.response
             /\ state' = saved.state
             /\ state'.sessions_completed = state.sessions_completed + 1]_vars

\* an intake session was completed while the second store_memory call
\* failed: the profile is stored, the summary is not
C27_Witness ==
    /\ session_type = "intake"
    /\ result.op = "complete_session"
    /\ result.save_failed
    /\ state.sessions_completed = 1
    /\ state.collected_fields # <<>>
    /\ Len(memory) = 1
    /\ memory[1].type = "profile"

\* ------------------------------------------------------------------------
\* The clarification-attempt counts (checked under SpecReset)
\* ------------------------------------------------------------------------
\* C28: in every reachable state the clarification-attempt count of every
\* field is at most MAX_CLARIFICATIONS_PER_FIELD (3).
C28_AttemptsAtMostThree ==
    \A i \in 1..Len(state.clarification_attempts) :
        state.clarification_attempts[i].count <= MAX_CLARIFICATIONS_PER_FIELD

\* ------------------------------------------------------------------------
\* PatternDetector (pattern_detector.py)
\* ------------------------------------------------------------------------
\* str.lower() of one character (the messages are ASCII)
LowerChar(c) ==
    CASE c = "A" -> "a"
      [] c = "B" -> "b"
      [] c = "C" -> "c"
      [] c = "D" -> "d"
      [] c = "E" -> "e"
      [] c = "F" -> "f"
      [] c = "G" -> "g"
      [] c = "H" -> "h"
      [] c = "I" -> "i"
      [] c = "J" -> "j"
      [] c = "K" -> "k"
      [] c = "L" -> "l"
      [] c = "M" -> "m"
      [] c = "N" -> "n"
      [] c = "O" -> "o"
      [] c = "P" -> "p"
      [] c = "Q" -> "q"
      [] c = "R" -> "r"
      [] c = "S" -> "s"
      [] c = "T" -> "t"
      [] c = "U" -> "u"
      [] c = "V" -> "v"
      [] c = "W" -> "w"
      [] c = "X" -> "x"
      [] c = "Y" -> "y"
      [] c = "Z" -> "z"
      [] OTHER -> c

\* text.lower()
RECURSIVE Lower(_)
Lower(text) ==
    IF Len(text) = 0 THEN ""
    ELSE LowerChar(SubSeq(text, 1, 1)) \o Lower(SubSeq(text, 2, Len(text)))

\* kw in text
Contains(text, kw) ==
    \E i \in 1..(Len(text) - Len(kw) + 1) : SubSeq(text, i, i + Len(kw) - 1) = kw

\* any(kw in text for kw in keywords)
AnyIn(keywords, text) == \E i \in 1..Len(keywords) : Contains(text, keywords[i])

\* text.split(): the words between blanks
RECURSIVE SplitFrom(_, _, _)
SplitFrom(text, i, word) ==
    IF i > Len(text)
    THEN IF word = "" THEN <<>> ELSE <<word>>
    ELSE IF SubSeq(text, i, i) = " "
    THEN (IF word = "" THEN <<>> ELSE <<word>>) \o SplitFrom(text, i + 1, "")
    ELSE SplitFrom(text, i + 1, word \o SubSeq(text, i, i))

Split(text) == SplitFrom(text, 1, "")

barrier_keywords ==
    << [name |-> "time", keywords |-> <<"busy", "no time", "work", "schedule", "hours", "late">>],
       [name |-> "weather", keywords |-> <<"rain", "cold", "hot", "weather", "season", "flood">>],
       [name |-> "health", keywords |-> <<"sick", "injury", "pain", "tired", "fatigue", "unwell">>],
       [name |-> "motivation",
        keywords |-> <<"lazy", "don't feel", "can't be bothered", "forgot", "skipped">>],
       [name |-> "access",
        keywords |-> <<"expensive", "afford", "no access", "far", "unavailable">>],
       [name |-> "social", keywords |-> <<"family", "kids", "caring for", "responsibilities">>] >>

habit_keywords ==
    << [name |-> "walking", keywords |-> <<"walk", "walking", "steps", "stroll">>],
       [name |-> "exercise",
        keywords |-> <<"exercise", "gym", "workout", "run", "jog", "swim">>],
       [name |-> "diet",
        keywords |-> <<"eat", "food", "diet", "salt", "sugar", "vegetable", "fruit">>],
       [name |-> "water", keywords |-> <<"water", "hydrat", "drink", "fluid">>],
       [name |-> "sleep", keywords |-> <<"sleep", "rest", "bed", "insomnia">>],
       [name |-> "medication",
        keywords |-> <<"medicine", "medication", "pill", "tablet", "drug">>],
       [name |-> "monitoring",
        keywords |-> <<"measure", "check", "monitor", "reading", "bp",
                       "blood pressure", "weight">>] >>

positive_status ==
    <<"doing", "following", "keeping", "maintained", "success", "good", "well",
      "daily", "regularly">>

negative_status ==
    <<"stopped", "quit", "can't", "haven't", "struggle", "difficult", "hard",
      "failed", "missed", "skipped">>

stress_keywords ==
    <<"stress", "stressed", "anxious", "anxiety", "overwhelmed", "pressure",
      "worried", "tension">>

RECURRING_BARRIER == "recurring_barrier"
HABIT_DECLINE == "habit_decline"
HABIT_IMPROVEMENT == "habit_improvement"
STRESS_CORRELATION == "stress_correlation"
HEALTH_TREND == "health_trend"

\* Severity
SeverityLow == "low"
SeverityMedium == "medium"
SeverityHigh == "high"
SeverityCritical == "critical"

\* detected_at is left out; confidence is in percent
DetectedPattern(pattern_type, description, severity, evidence, recommendation, affected_habits, confidence) ==
    [pattern_type |-> pattern_type,
     description |-> description,
     severity |-> severity,
     evidence |-> evidence,
     recommendation |-> recommendation,
     affected_habits |-> affected_habits,
     confidence |-> confidence]

\* seq[:n]
FirstN(seq, n) == SubSeq(seq, 1, IF Len(seq) < n THEN Len(seq) ELSE n)

\* the names of the table rows
Names(rows) == [i \in 1..Len(rows) |-> rows[i].name]

barrier_recommendation(barrier_type) ==
    CASE barrier_type = "time" ->
           "Consider shorter habit sessions (10 min instead of 30) or habit stacking with existing routines"
      [] barrier_type = "weather" ->
           "Suggest indoor alternatives: home exercises, indoor walking, mall walking"
      [] barrier_type = "health" ->
           "Modify habits to accommodate current health status, consult healthcare provider"
      [] barrier_type = "motivation" ->
           "Break habits into smaller steps, use habit tracking, find an accountability partner"
      [] barrier_type = "access" ->
           "Find free or low-cost alternatives, community resources, home-based options"
      [] OTHER ->
           "Involve family in habits, find time-efficient options, adjust expectations temporarily"

detect_barriers(messages) ==
    LET combined == Lower(Join(messages, " "))
        mentions(b) ==
            LET hit(msg) == AnyIn(b.keywords, Lower(msg))
            IN SelectSeq(messages, hit)
        detected(b) == mentions(b) # <<>>
        mentioned(h) == AnyIn(h.keywords, combined)
        affected == Names(SelectSeq(habit_keywords, mentioned))
        found == SelectSeq(barrier_keywords, detected)
    IN [i \in 1..Len(found) |->
          LET n == Len(mentions(found[i]))
          IN DetectedPattern(RECURRING_BARRIER,
                             "User mentions " \o found[i].name \o "-related barriers",
                             IF n >= 2 THEN SeverityMedium ELSE SeverityLow,
                             FirstN(mentions(found[i]), 3),
                             barrier_recommendation(found[i].name),
                             affected,
                             70 + 10 * (IF n < 3 THEN n ELSE 3))]

\* "positive" / "negative" / "neutral" of one message
MentionStatus(msg) ==
    IF AnyIn(positive_status, Lower(msg)) THEN "positive"
    ELSE IF AnyIn(negative_status, Lower(msg)) THEN "negative"
    ELSE "neutral"

\* the messages that mention the habit and have the status
HabitMentions(h, messages, status) ==
    LET hit(msg) == AnyIn(h.keywords, Lower(msg)) /\ MentionStatus(msg) = status
    IN SelectSeq(messages, hit)

RECURSIVE Flatten(_)
Flatten(lists) ==
    IF lists = <<>> THEN <<>> ELSE Head(lists) \o Flatten(Tail(lists))

detect_habit_changes(messages) ==
    LET change(h) ==
            LET negative == HabitMentions(h, messages, "negative")
                positive == HabitMentions(h, messages, "positive")
            IN IF Len(negative) > Len(positive) /\ Len(negative) >= 1
               THEN << DetectedPattern(HABIT_DECLINE,
                                       "User reports struggling with " \o h.name \o " habit",
                                       IF Len(negative) >= 2 THEN SeverityMedium
                                       ELSE SeverityLow,
                                       FirstN(negative, 3),
                                       "Consider modifying " \o h.name
                                           \o " habit or addressing barriers",
                                       <<h.name>>,
                                       60 + 10 * Len(negative)) >>
               ELSE IF Len(positive) > Len(negative) /\ Len(positive) >= 1
               THEN << DetectedPattern(HABIT_IMPROVEMENT,
                                       "User reports success with " \o h.name \o " habit",
                                       SeverityLow,
                                       FirstN(positive, 3),
                                       "Reinforce and potentially build on " \o h.name
                                           \o " success",
                                       <<h.name>>,
                                       60 + 10 * Len(positive)) >>
               ELSE <<>>
    IN Flatten([i \in 1..Len(habit_keywords) |-> change(habit_keywords[i])])

detect_recurring_patterns(messages, previous_patterns) ==
    LET combined == Lower(Join(messages, " "))
        again(prev) ==
            /\ prev.pattern_type = RECURRING_BARRIER
            /\ \E i \in 1..Len(prev.evidence) :
                  AnyIn(FirstN(Split(Lower(prev.evidence[i])), 5), combined)
        recurring == SelectSeq(previous_patterns, again)
    IN [i \in 1..Len(recurring) |->
          DetectedPattern(RECURRING_BARRIER,
                          "Recurring issue: " \o recurring[i].description,
                          SeverityHigh,
                          Append(recurring[i].evidence, "Mentioned again in current session"),
                          "This barrier persists - consider more significant intervention: "
                              \o recurring[i].recommendation,
                          recurring[i].affected_habits,
                          85)]

detect_stress_correlation(messages) ==
    LET combined == Lower(Join(messages, " "))
        has_negative == AnyIn(negative_status, combined)
        struggling(h) == AnyIn(h.keywords, combined) /\ has_negative
        first == Names(SelectSeq(habit_keywords, struggling))
        stressed(msg) == AnyIn(stress_keywords, Lower(msg))
        stress_evidence == SelectSeq(messages, stressed)
        \* the habits named in a message that has a stress keyword, message
        \* by message, those not yet in the list
        linked(h) ==
            /\ ~InSeq(h.name, first)
            /\ \E i \in 1..Len(stress_evidence) : AnyIn(h.keywords, Lower(stress_evidence[i]))
        firstMessage(h) ==
            CHOOSE i \in 1..Len(stress_evidence) :
                /\ AnyIn(h.keywords, Lower(stress_evidence[i]))
                /\ \A j \in 1..(i - 1) : ~AnyIn(h.keywords, Lower(stress_evidence[j]))
        inMessage(i) ==
            LET here(h) == linked(h) /\ firstMessage(h) = i
            IN Names(SelectSeq(habit_keywords, here))
        second == Flatten([i \in 1..Len(stress_evidence) |-> inMessage(i)])
        struggling_habits == first \o second
    IN IF AnyIn(stress_keywords, combined) /\ struggling_habits # <<>>
       THEN << DetectedPattern(STRESS_CORRELATION,
                               "Stress appears linked to difficulty with habits",
                               SeverityMedium,
                               FirstN(stress_evidence, 2),
                               "Address stress management first - consider relaxation techniques, reduce habit expectations temporarily",
                               struggling_habits,
                               65) >>
       ELSE <<>>

analyze_session(messages, previous_patterns) ==
    detect_barriers(messages)
        \o detect_habit_changes(messages)
        \o (IF previous_patterns # <<>>
            THEN detect_recurring_patterns(messages, previous_patterns) ELSE <<>>)
        \o detect_stress_correlation(messages)

\* the habits of the summary with their current_status, in table order
get_habit_summary(messages) ==
    LET status(h) ==
            LET positive == Len(HabitMentions(h, messages, "positive"))
                negative == Len(HabitMentions(h, messages, "negative"))
            IN IF negative > positive THEN "struggling"
               ELSE IF positive > negative THEN "active"
               ELSE "unknown"
        mentioned(h) == \E i \in 1..Len(messages) : AnyIn(h.keywords, Lower(messages[i]))
        hs == SelectSeq(habit_keywords, mentioned)
    IN [i \in 1..Len(hs) |-> [name |-> hs[i].name, current_status |-> status(hs[i])]]

\* ------------------------------------------------------------------------
\* InterventionEngine (intervention_engine.py)
\* ------------------------------------------------------------------------
HABIT_MODIFICATION == "habit_modification"
MOTIVATION_BOOST == "motivation_boost"
MEDICAL_REFERRAL == "medical_referral"
GOAL_ADJUSTMENT == "goal_adjustment"
SUPPORT_RECOMMENDATION == "support_recommendation"

\* the display texts description and expected_outcome are left out
Intervention(intervention_type, title, priority, target_habit, specific_actions, requires_follow_up) ==
    [intervention_type |-> intervention_type,
     title |-> title,
     priority |-> priority,
     target_habit |-> target_habit,
     specific_actions |-> specific_actions,
     requires_follow_up |-> requires_follow_up]

\* habit_alternatives[habit].get(barrier_type, []) when habit is in the table, else []
habit_alternatives(habit, barrier_type) ==
    CASE habit = "walking" /\ barrier_type = "weather" ->
           <<"indoor walking (mall, home)", "stair climbing", "marching in place">>
      [] habit = "walking" /\ barrier_type = "time" ->
           <<"10-minute walks 2x daily", "walking during phone calls", "parking farther away">>
      [] habit = "walking" /\ barrier_type = "health" ->
           <<"gentle stretching", "chair exercises", "slow-paced walking">>
      [] habit = "walking" /\ barrier_type = "motivation" ->
           <<"walking with music/podcasts", "step counting challenge", "walking buddy">>
      [] habit = "exercise" /\ barrier_type = "weather" ->
           <<"home workout videos", "yoga", "resistance bands at home">>
      [] habit = "exercise" /\ barrier_type = "time" ->
           <<"7-minute HIIT", "exercise during TV commercials", "morning micro-workouts">>
      [] habit = "exercise" /\ barrier_type = "health" ->
           <<"chair exercises", "water aerobics", "physical therapy exercises">>
      [] habit = "exercise" /\ barrier_type = "access" ->
           <<"bodyweight exercises", "free YouTube workouts", "community center programs">>
      [] habit = "diet" /\ barrier_type = "time" ->
           <<"meal prep on weekends", "healthy snack pre-packing", "simple one-pot meals">>
      [] habit = "diet" /\ barrier_type = "access" ->
           <<"affordable healthy staples list", "seasonal produce focus", "community gardens">>
      [] habit = "diet" /\ barrier_type = "motivation" ->
           <<"one healthy swap per week", "photo food diary", "cooking with family">>
      [] habit = "water" /\ barrier_type = "motivation" ->
           <<"water bottle with time markers", "phone reminders", "habit stacking with meals">>
      [] habit = "water" /\ barrier_type = "time" ->
           <<"keep water at desk/bedside", "infused water for taste", "water before each meal">>
      [] habit = "medication" /\ barrier_type = "motivation" ->
           <<"pill organizer", "phone alarms", "habit stack with meals">>
      [] habit = "medication" /\ barrier_type = "time" ->
           <<"same time every day routine", "keep medications visible", "weekly pill prep">>
      [] habit = "monitoring" /\ barrier_type = "time" ->
           <<"same time each day", "after morning routine", "before bed routine">>
      [] habit = "monitoring" /\ barrier_type = "motivation" ->
           <<"tracking app", "share with family", "health diary">>
      [] OTHER -> <<>>

\* the barrier types in the order _handle_barrier_pattern looks for them
BarrierTypeOrder == <<"time", "weather", "health", "motivation", "access", "social">>

\* the first barrier type named in the description, NONE when there is none
DescribedBarrierType(description) ==
    LET named(bt) == Contains(Lower(description), bt)
        found == SelectSeq(BarrierTypeOrder, named)
    IN IF found = <<>> THEN NONE ELSE found[1]

\* _handle_barrier_pattern giving a modification for the first affected habit only
handle_barrier_pattern_first_habit(pattern) ==
    LET barrier_type == DescribedBarrierType(pattern.description)
        habit == pattern.affected_habits[1]
    IN IF /\ pattern.affected_habits # <<>>
          /\ barrier_type # NONE
          /\ habit_alternatives(habit, barrier_type) # <<>>
       THEN << Intervention(HABIT_MODIFICATION,
                            "Modify " \o habit \o " habit for " \o barrier_type
                                \o " constraints",
                            IF pattern.severity = SeverityHigh THEN 2 ELSE 3,
                            habit,
                            FirstN(habit_alternatives(habit, barrier_type), 3),
                            TRUE) >>
       ELSE <<>>

handle_barrier_pattern(pattern) ==
    LET barrier_type == DescribedBarrierType(pattern.description)
        modification(habit) ==
            IF barrier_type # NONE /\ habit_alternatives(habit, barrier_type) # <<>>
            THEN << Intervention(HABIT_MODIFICATION,
                                 "Modify " \o habit \o " habit for " \o barrier_type
                                     \o " constraints",
                                 IF pattern.severity = SeverityHigh THEN 2 ELSE 3,
                                 habit,
                                 FirstN(habit_alternatives(habit, barrier_type), 3),
                                 TRUE) >>
            ELSE <<>>
    IN Flatten([i \in 1..Len(pattern.affected_habits) |->
                   modification(pattern.affected_habits[i])])

handle_decline_pattern(pattern) ==
    [i \in 1..Len(pattern.affected_habits) |->
       LET habit == pattern.affected_habits[i]
       IN IF pattern.severity \in {SeverityHigh, SeverityCritical}
          THEN Intervention(GOAL_ADJUSTMENT,
                            "Reset " \o habit \o " habit with easier goal",
                            1,
                            habit,
                            <<"Reduce " \o habit \o " goal by 50% for 2 weeks",
                              "Focus on consistency over intensity",
                              "Track completion, not perfection",
                              "Celebrate small wins">>,
                            TRUE)
          ELSE Intervention(MOTIVATION_BOOST,
                            "Reinvigorate " \o habit \o " habit",
                            3,
                            habit,
                            <<"Identify what made it work initially",
                              "Add variety or social element",
                              "Connect habit to meaningful personal goal">>,
                            TRUE)]

handle_improvement_pattern(pattern) ==
    [i \in 1..Len(pattern.affected_habits) |->
       LET habit == pattern.affected_habits[i]
       IN Intervention(GOAL_ADJUSTMENT,
                       "Build on " \o habit \o " success",
                       4,
                       habit,
                       <<"Consider increasing " \o habit \o " duration or frequency by 10-20%",
                         "Add a complementary habit",
                         "Share success strategy with others">>,
                       FALSE)]

handle_stress_pattern(pattern) ==
    << Intervention(SUPPORT_RECOMMENDATION,
                    "Address stress to support habit adherence",
                    2,
                    NONE,
                    <<"Consider 5-minute daily breathing exercises",
                      "Identify top stress triggers",
                      "Temporarily simplify health goals",
                      "Consider speaking with a counselor if stress persists">>,
                    TRUE) >>
        \o [i \in 1..Len(pattern.affected_habits) |->
              LET habit == pattern.affected_habits[i]
              IN Intervention(GOAL_ADJUSTMENT,
                              "Temporarily adjust " \o habit \o " expectations",
                              3,
                              habit,
                              <<"Reduce " \o habit \o " goal to minimum viable version",
                                "Focus on not breaking the chain",
                                "Any amount counts during stressful periods">>,
                              TRUE)]

handle_health_trend(pattern) ==
    IF \/ Contains(Lower(pattern.description), "upward")
       \/ Contains(Lower(pattern.description), "trending up")
    THEN << Intervention(MEDICAL_REFERRAL,
                         "Health metrics require attention",
                         1,
                         NONE,
                         <<"Schedule follow-up with healthcare provider",
                           "Review current medications with doctor",
                           "Increase monitoring frequency",
                           "Double down on lifestyle modifications">>,
                         TRUE) >>
    ELSE << Intervention(MOTIVATION_BOOST,
                         "Health metrics improving - keep going!",
                         5,
                         NONE,
                         <<"Continue current approach",
                           "Document what's working",
                           "Share progress with healthcare provider">>,
                         FALSE) >>

generate_for_pattern(pattern) ==
    CASE pattern.pattern_type = RECURRING_BARRIER -> handle_barrier_pattern(pattern)
      [] pattern.pattern_type = HABIT_DECLINE -> handle_decline_pattern(pattern)
      [] pattern.pattern_type = HABIT_IMPROVEMENT -> handle_improvement_pattern(pattern)
      [] pattern.pattern_type = STRESS_CORRELATION -> handle_stress_pattern(pattern)
      [] pattern.pattern_type = HEALTH_TREND -> handle_health_trend(pattern)
      [] OTHER -> <<>>

generate_from_summary(habit_summary) ==
    LET struggling(h) == h.current_status = "struggling"
    IN IF Len(SelectSeq(habit_summary, struggling)) >= 3
       THEN << Intervention(GOAL_ADJUSTMENT,
                            "Simplify - Focus on one habit at a time",
                            1,
                            NONE,
                            <<"Choose the easiest habit to restart",
                              "Put other habits on 'maintenance mode'",
                              "Rebuild one habit fully before adding another",
                              "Aim for 2 weeks of consistency before expanding">>,
                            TRUE) >>
       ELSE <<>>

\* the interventions list before it is sorted; habit_summary is <<>> for None
\* and for an empty summary
InterventionCandidates(patterns, habit_summary) ==
    Flatten([i \in 1..Len(patterns) |-> generate_for_pattern(patterns[i])])
        \o (IF habit_summary # <<>> THEN generate_from_summary(habit_summary) ELSE <<>>)

\* the priorities an Intervention is built with
Priorities == 1..5

\* interventions.sort(key=lambda x: x.priority): stable
SortInterventions(interventions) ==
    Flatten([p \in Priorities |->
               LET has(x) == x.priority = p IN SelectSeq(interventions, has)])

\* the first intervention of every title, in order
UniqueByTitle(interventions) ==
    LET first(i) == \A j \in 1..(i - 1) : interventions[j].title # interventions[i].title
        RECURSIVE keep(_)
        keep(i) ==
            IF i > Len(interventions) THEN <<>>
            ELSE (IF first(i) THEN <<interventions[i]>> ELSE <<>>) \o keep(i + 1)
    IN keep(1)

\* the number of interventions returned
MaxInterventions == 5

\* generate_interventions without the sort
generate_interventions_unsorted(patterns, habit_summary) ==
    FirstN(UniqueByTitle(InterventionCandidates(patterns, habit_summary)), MaxInterventions)

generate_interventions(patterns, habit_summary) ==
    FirstN(UniqueByTitle(SortInterventions(InterventionCandidates(patterns, habit_summary))),
           MaxInterventions)

\* ------------------------------------------------------------------------
\* The pattern analysis of the user messages (SpecPattern)
\* ------------------------------------------------------------------------
PatternMessages ==
    { "Rain kept me from my walk",
      "busy rain walk gym food water pill",
      "stressed and missed my walk gym pill" }

\* previous_patterns: None, or the patterns of an earlier session
PreviousPatterns ==
    { <<>>, analyze_session(<<"Rain kept me from my walk">>, <<>>) }

AnalyzeSession(previous_patterns) ==
    /\ result' = [op |-> "analyze_session",
                  messages |-> get_user_messages(state),
                  patterns |-> analyze_session(get_user_messages(state), previous_patterns)]
    /\ UNCHANGED <<state, manager_vars, calls, session_type, llm_available, ack_index,
                   ready_seen>>

\* generate_interventions on the patterns of the last analysis, with the
\* habit summary of the same messages
GenerateInterventions ==
    /\ result.op = "analyze_session"
    /\ result' = [op |-> "generate_interventions",
                  messages |-> result.messages,
                  patterns |-> result.patterns,
                  habit_summary |-> get_habit_summary(result.messages),
                  interventions |->
                      generate_interventions(result.patterns,
                                             get_habit_summary(result.messages))]
    /\ UNCHANGED <<state, manager_vars, calls, session_type, llm_available, ack_index,
                   ready_seen>>

PatternSend ==
    /\ state.turn_count < MaxPatternTurn
    /\ \E message \in PatternMessages : AddUserMessage(message)

PatternAnalyze ==
    /\ result.op = "add_user_message"
    /\ \E previous_patterns \in PreviousPatterns : AnalyzeSession(previous_patterns)

PatternNext ==
    \/ PatternSend
    \/ PatternAnalyze
    \/ GenerateInterventions

SpecPattern == Init /\ [][PatternNext]_vars

\* a keyword of the table row is in one of the messages
KeywordIn(row, messages) ==
    \E i \in 1..Len(messages) : AnyIn(row.keywords, Lower(messages[i]))

\* the patterns hold a RecurringBarrier pattern of the category for the habit
BarrierPatternFor(patterns, b, h) ==
    \E i \in 1..Len(patterns) :
        /\ patterns[i].pattern_type = RECURRING_BARRIER
        /\ patterns[i].description = "User mentions " \o b.name \o "-related barriers"
        /\ InSeq(h.name, patterns[i].affected_habits)

\* x is the HabitModification of the habit with the actions of the table
IsModification(x, b, h) ==
    /\ x.intervention_type = HABIT_MODIFICATION
    /\ x.target_habit = h.name
    /\ x.specific_actions = habit_alternatives(h.name, b.name)

\* C29 as stated: whenever the analysed messages hold a keyword of a barrier
\* category and a keyword of a habit, the analysis has a RecurringBarrier
\* pattern of the category that affects the habit, and the interventions
\* generated from it hold the HabitModification of the habit with the
\* actions of the alternatives table, when the table has the entry.
C29_ModificationAlwaysReturned ==
    result.op = "generate_interventions" =>
        \A ib \in 1..Len(barrier_keywords), ih \in 1..Len(habit_keywords) :
            LET b == barrier_keywords[ib]
                h == habit_keywords[ih]
                r == result.interventions
            IN (KeywordIn(b, result.messages) /\ KeywordIn(h, result.messages))
               => /\ BarrierPatternFor(result.patterns, b, h)
                  /\ habit_alternatives(h.name, b.name) # <<>>
                     => \E j \in 1..Len(r) : IsModification(r[j], b, h)

\* C29, amended: as above, but the HabitModification may be missing from the
\* returned list when the list is full with five interventions none of which
\* has a lower priority than the modification (a greater priority number).
C29_ModificationReturnedUnlessCrowdedOut ==
    result.op = "generate_interventions" =>
        \A ib \in 1..Len(barrier_keywords), ih \in 1..Len(habit_keywords) :
            LET b == barrier_keywords[ib]
                h == habit_keywords[ih]
                r == result.interventions
                c == InterventionCandidates(result.patterns, result.habit_summary)
            IN (KeywordIn(b, result.messages) /\ KeywordIn(h, result.messages))
               => /\ BarrierPatternFor(result.patterns, b, h)
                  /\ habit_alternatives(h.name, b.name) # <<>>
                     => \/ \E j \in 1..Len(r) : IsModification(r[j], b, h)
                        \/ /\ Len(r) = MaxInterventions
                           /\ \E k \in 1..Len(c) :
                                 /\ IsModification(c[k], b, h)
                                 /\ \A j \in 1..Len(r) : r[j].priority <= c[k].priority

\* the messages name rain and a walk, the analysis has the weather pattern
\* for walking, and the modification of walking for the weather is returned
C29_Witness ==
    /\ result.op = "generate_interventions"
    /\ result.messages = <<"Rain kept me from my walk">>
    /\ BarrierPatternFor(result.patterns, barrier_keywords[2], habit_keywords[1])
    /\ Len(result.interventions) = 1
    /\ result.interventions[1].title = "Modify walking habit for weather constraints"
    /\ result.interventions[1].specific_actions =
           <<"indoor walking (mall, home)", "stair climbing", "marching in place">>

\* C30: the returned list has at most 5 interventions, is sorted by priority
\* ascending, and has no two interventions of the same title; every
\* candidate left out has a priority number no smaller than that of every
\* returned intervention, or has the title of a returned one.
C30_TopFiveByPriority ==
    result.op = "generate_interventions" =>
        LET r == result.interventions
            c == InterventionCandidates(result.patterns, result.habit_summary)
        IN /\ Len(r) <= 5
           /\ \A i, j \in 1..Len(r) : i < j => r[i].priority <= r[j].priority
           /\ \A i, j \in 1..Len(r) : i # j => r[i].title # r[j].title
           /\ \A k \in 1..Len(c) :
                 \/ InSeq(c[k], r)
                 \/ \A j \in 1..Len(r) : c[k].priority >= r[j].priority
                 \/ \E j \in 1..Len(r) : r[j].title = c[k].title

\* more than five candidates, one title twice among them: five are
\* returned, of more than one priority
C30_Witness ==
    /\ result.op = "generate_interventions"
    /\ LET r == result.interventions
           c == InterventionCandidates(result.patterns, result.habit_summary)
       IN /\ Len(c) > 5
          /\ Len(r) = 5
          /\ r[1].priority < r[5].priority
          /\ \E i, j \in 1..Len(c) : i < j /\ c[i].title = c[j].title

\* ------------------------------------------------------------------------
\* PatternDetector.analyze_memory_history (SpecTrend)
\* ------------------------------------------------------------------------
Digits == <<"0", "1", "2", "3", "4", "5", "6", "7", "8", "9">>

\* \d
IsDigit(c) == InSeq(c, Digits)

\* int(c) of one digit
DigitValue(c) == (CHOOSE k \in 1..10 : Digits[k] = c) - 1

\* int(text) of a run of digits
RECURSIVE IntOf(_)
IntOf(text) ==
    IF Len(text) = 0 THEN 0
    ELSE 10 * IntOf(SubSeq(text, 1, Len(text) - 1))
         + DigitValue(SubSeq(text, Len(text), Len(text)))

\* the length of the run of digits at i, up to 3: what \d{2,3} takes when the
\* run has 2 digits or more (a shorter take leaves a digit where \s*/ must match)
DigitRun(text, i) ==
    LET digit(k) == k <= Len(text) /\ IsDigit(SubSeq(text, k, k))
    IN IF ~digit(i) THEN 0
       ELSE IF ~digit(i + 1) THEN 1
       ELSE IF ~digit(i + 2) THEN 2
       ELSE 3

\* \s*: the first position at or after i that holds no blank
RECURSIVE SkipBlanks(_, _)
SkipBlanks(text, i) ==
    IF i <= Len(text) /\ SubSeq(text, i, i) = " " THEN SkipBlanks(text, i + 1) ELSE i

\* the match of (\d{2,3})\s*/\s*(\d{2,3}) that starts at i, with its two groups
\* and its end, as a list of one; the empty list when there is none
BPMatchAt(text, i) ==
    LET n == DigitRun(text, i)
        slash == SkipBlanks(text, i + n)
        second == SkipBlanks(text, slash + 1)
        m == DigitRun(text, second)
    IN IF /\ n >= 2
          /\ slash <= Len(text)
          /\ SubSeq(text, slash, slash) = "/"
          /\ m >= 2
       THEN << [systolic |-> SubSeq(text, i, i + n - 1),
                diastolic |-> SubSeq(text, second, second + m - 1),
                end |-> second + m - 1] >>
       ELSE <<>>

\* re.findall(bp_pattern, text): the matches from left to right, none overlapping
RECURSIVE BPFindAll(_, _)
BPFindAll(text, i) ==
    IF i > Len(text) THEN <<>>
    ELSE LET match == BPMatchAt(text, i)
         IN IF match = <<>> THEN BPFindAll(text, i + 1)
            ELSE match \o BPFindAll(text, match[1].end + 1)

\* bp_readings: the (systolic, diastolic) pairs in range, in the order read
bp_readings(texts) ==
    LET pairs(text) ==
            LET matches == BPFindAll(text, 1)
            IN [k \in 1..Len(matches) |->
                  <<IntOf(matches[k].systolic), IntOf(matches[k].diastolic)>>]
        valid(bp) == 70 <= bp[1] /\ bp[1] <= 250 /\ 40 <= bp[2] /\ bp[2] <= 150
    IN SelectSeq(Flatten([i \in 1..Len(texts) |-> pairs(texts[i])]), valid)

\* the evidence is the list of readings, not the text printed from it
detect_health_trends(texts) ==
    LET readings == bp_readings(texts)
        first == readings[1][1]
        last == readings[Len(readings)][1]
    IN IF Len(readings) >= 2 /\ last > first + 10
       THEN << DetectedPattern(HEALTH_TREND,
                               "Blood pressure appears to be trending upward",
                               SeverityHigh, <<readings>>,
                               "Monitor closely, consider medication review, reinforce lifestyle modifications",
                               <<>>, 70) >>
       ELSE IF Len(readings) >= 2 /\ last < first - 10
       THEN << DetectedPattern(HEALTH_TREND,
                               "Blood pressure shows improvement",
                               SeverityLow, <<readings>>,
                               "Continue current approach, maintain lifestyle modifications",
                               <<>>, 70) >>
       ELSE <<>>

analyze_habit_trajectory(texts) ==
    LET decline(h) ==
            LET mentions(text) == AnyIn(h.keywords, Lower(text))
                positive(text) == mentions(text) /\ AnyIn(positive_status, Lower(text))
                negative(text) == mentions(text) /\ AnyIn(negative_status, Lower(text))
                positive_mentions == Len(SelectSeq(texts, positive))
                negative_mentions == Len(SelectSeq(texts, negative))
            IN IF /\ positive_mentions + negative_mentions >= 2
                  /\ negative_mentions > positive_mentions * 2
               THEN << DetectedPattern(HABIT_DECLINE,
                                       "Historical pattern: " \o h.name
                                           \o " habit shows declining adherence",
                                       SeverityHigh,
                                       <<ToString(negative_mentions) \o " negative mentions vs "
                                           \o ToString(positive_mentions) \o " positive">>,
                                       "Significant intervention needed for " \o h.name
                                           \o " - consider complete habit redesign",
                                       <<h.name>>,
                                       75) >>
               ELSE <<>>
    IN Flatten([i \in 1..Len(habit_keywords) |-> decline(habit_keywords[i])])

\* the texts of the memories; the texts sent are no JSON objects, so
\* json.loads leaves each text as it is
memory_texts(memories) == [i \in 1..Len(memories) |-> memories[i].text]

analyze_memory_history(memories) ==
    IF memories = <<>> THEN <<>>
    ELSE analyze_habit_trajectory(memory_texts(memories))
             \o detect_health_trends(memory_texts(memories))

TrendTexts ==
    { "BP 130/85", "bp was 140/90", "141 / 88 today", "120/80", "reading 119/79",
      "300/90 and 60/30", "no reading" }

\* the lists of up to n memories with these texts
RECURSIVE MemoryLists(_, _)
MemoryLists(texts, n) ==
    IF n = 0 THEN { <<>> }
    ELSE LET shorter == MemoryLists(texts, n - 1)
         IN shorter \cup { Append(m, [text |-> t]) : m \in shorter, t \in texts }

AnalyzeMemoryHistory(memories) ==
    /\ result' = [op |-> "analyze_memory_history",
                  texts |-> memory_texts(memories),
                  patterns |-> analyze_memory_history(memories)]
    /\ UNCHANGED <<state, manager_vars, calls, session_type, llm_available, ack_index,
                   ready_seen>>

\* one analysis in a behaviour: the analysis reads nothing but its argument
TrendAnalyze ==
    /\ result.op # "analyze_memory_history"
    /\ \E memories \in MemoryLists(TrendTexts, MaxMemories) : AnalyzeMemoryHistory(memories)

TrendNext == TrendAnalyze

SpecTrend == Init /\ [][TrendNext]_vars

\* the HealthTrend patterns among the patterns
HealthTrends(patterns) ==
    LET trend(p) == p.pattern_type = HEALTH_TREND IN SelectSeq(patterns, trend)

\* C31: with at least two valid readings, the analysis has a HealthTrend
\* pattern whenever the last systolic value differs from the first by 10 or
\* more (worsening when higher, improving when lower), and none when the
\* difference is smaller than 10.
C31_TrendFromTenUp ==
    result.op = "analyze_memory_history" =>
        LET readings == bp_readings(result.texts)
            first == readings[1][1]
            last == readings[Len(readings)][1]
            trends == HealthTrends(result.patterns)
        IN Len(readings) >= 2 =>
              /\ last - first >= 10
                 => /\ Len(trends) = 1
                    /\ trends[1].description = "Blood pressure appears to be trending upward"
              /\ first - last >= 10
                 => /\ Len(trends) = 1
                    /\ trends[1].description = "Blood pressure shows improvement"
              /\ (last - first < 10 /\ first - last < 10) => trends = <<>>

\* ------------------------------------------------------------------------
\* The readiness score over all confidences (SpecScore)
\* ------------------------------------------------------------------------
ScoreFields == {"age", "alcohol"}

\* clarifying_question keeps its default, None
ScoreSet ==
    \E name \in ScoreFields, confidence \in FieldConfidence :
        SetField(name, "yes", confidence, NONE)

ScoreMark ==
    \E name \in ScoreFields :
        /\ Attempts(state, name) < MaxScoreMarks
        /\ MarkAmbiguous(name, get_clarifying_question(name))

ScoreNext ==
    \/ ScoreSet
    \/ ScoreMark

SpecScore == Init /\ [][ScoreNext]_vars

\* the number of collected fields stored with the confidence
FieldsWith(s, confidence) ==
    Cardinality({ i \in 1..Len(s.collected_fields) :
                     s.collected_fields[i].confidence = confidence })

\* C32: the readiness score is the sum over the collected fields of 1.0 for
\* High or Medium, 0.75 for Low and 0.5 for NeedsClarification (here in
\* quarters: 4, 3 and 2); every collected field has exactly one of these
\* confidences, and nothing else adds to the score.
C32_ScoreIsWeightedSum ==
    /\ count_collected_fields(state)
         = 4 * (FieldsWith(state, HIGH) + FieldsWith(state, MEDIUM))
           + 3 * FieldsWith(state, LOW)
           + 2 * FieldsWith(state, NEEDS_CLARIFICATION)
    /\ FieldsWith(state, HIGH) + FieldsWith(state, MEDIUM) + FieldsWith(state, LOW)
         + FieldsWith(state, NEEDS_CLARIFICATION) = Len(state.collected_fields)

\* two fields are collected, one Low and one that mark_ambiguous has just
\* left in need of clarification: the score is 1.25
C32_Witness ==
    /\ Len(state.collected_fields) = 2
    /\ FieldsWith(state, LOW) = 1
    /\ FieldsWith(state, NEEDS_CLARIFICATION) = 1
    /\ count_collected_fields(state) = 5
    /\ result.op = "mark_ambiguous"

\* ------------------------------------------------------------------------
\* Interventions from the session and the memory history (SpecSimplify)
\* ------------------------------------------------------------------------
HabitTexts == { "missed walk gym food water pill" }

\* generate_interventions on the patterns of the session's messages followed
\* by those of the memory history, with the habit summary of the messages
GenerateWithHistory(memories) ==
    LET messages == get_user_messages(state)
        patterns == analyze_session(messages, <<>>) \o analyze_memory_history(memories)
    IN /\ result' = [op |-> "generate_interventions",
                     messages |-> messages,
                     patterns |-> patterns,
                     habit_summary |-> get_habit_summary(messages),
                     interventions |->
                         generate_interventions(patterns, get_habit_summary(messages))]
       /\ UNCHANGED <<state, manager_vars, calls, session_type, llm_available, ack_index,
                      ready_seen>>

SimplifyGenerate ==
    /\ result.op = "add_user_message"
    /\ \E memories \in MemoryLists(HabitTexts, MaxMemories) : GenerateWithHistory(memories)

SimplifyNext ==
    \/ PatternSend
    \/ SimplifyGenerate

SpecSimplify == Init /\ [][SimplifyNext]_vars

\* the number of habits of the summary that are struggling
Struggling(habit_summary) ==
    Cardinality({ i \in 1..Len(habit_summary) :
                     habit_summary[i].current_status = "struggling" })

\* the "simplify to one habit" interventions of the list
Simplifications(interventions) ==
    LET simplify(x) == x.title = "Simplify - Focus on one habit at a time"
    IN SelectSeq(interventions, simplify)

\* C33: whenever at least 3 habits of the summary are struggling, the list
\* returned by generate_interventions holds exactly one "simplify to one
\* habit" GoalAdjustment, of priority 1, whatever the patterns are.
C33_SimplifyReturned ==
    (result.op = "generate_interventions" /\ Struggling(result.habit_summary) >= 3)
        => LET simplify == Simplifications(result.interventions)
           IN /\ Len(simplify) = 1
              /\ simplify[1].intervention_type = GOAL_ADJUSTMENT
              /\ simplify[1].priority = 1

\* ------------------------------------------------------------------------
\* Readiness over the turns of a session (checked under Spec)
\* ------------------------------------------------------------------------
\* C34: once process_message has returned ready_for_crew = True, every later
\* process_message of the session returns ready_for_crew = True, as long as
\* no urgent flag is set and the session is not reset.
C34_ReadyStays ==
    [][(/\ ready_seen
        /\ result'.op = "process_message"
        /\ ~has_urgent_symptoms(state'))
       => result'.ready_for_crew]_vars

\* ------------------------------------------------------------------------
\* The ambiguous fields after process_message (checked under Spec)
\* ------------------------------------------------------------------------
\* the names in the ambiguous list or among the collected fields
KnownFields(s) ==
    { s.ambiguous_fields[i] : i \in 1..Len(s.ambiguous_fields) }
        \cup { s.collected_fields[i].name : i \in 1..Len(s.collected_fields) }

\* C35: after every process_message call, a field is in ambiguous_fields if
\* and only if its stored confidence is NEEDS_CLARIFICATION.
C35_AmbiguousIffNeedsClarification ==
    result.op = "process_message" =>
        \A name \in KnownFields(state) :
            InSeq(name, state.ambiguous_fields)
                <=> /\ HasKey(state.collected_fields, name)
                    /\ DictGet(state.collected_fields, name).confidence
                         = NEEDS_CLARIFICATION

\* ------------------------------------------------------------------------
\* The combined input at handoff (checked under SpecLog)
\* ------------------------------------------------------------------------
\* n times the message, as a list
Repeated(message, n) == [i \in 1..n |-> message]

\* C36: whenever process_message returns ready_for_crew = True, the combined
\* input is the concatenation, in order, of every user message sent since
\* the session was created or last reset. Under SpecLog every user message
\* is "hello" and turn_count is the number of messages sent.
C36_CombinedInputHasEveryMessage ==
    (result.op = "process_message" /\ result.ready_for_crew)
        => get_combined_input(state) = Join(Repeated("hello", state.turn_count), " ")

\* ------------------------------------------------------------------------
\* Managers made one after the other in a process (SpecSingleton)
\* ------------------------------------------------------------------------
\* SessionManager.__init__ of a later manager, which the model follows from
\* here on: get_extractor and get_question_generator return the objects the
\* process already has, whatever use_llm is
NewManager(stype, flag) ==
    /\ session_type' = stype
    /\ use_llm' = flag
    /\ state' = ConversationState(stype)
    /\ result' = SessionResult("init", "", FALSE, state', FALSE, <<>>)
    /\ ready_seen' = FALSE
    /\ last_crew_hash' = NoHash
    /\ analysed' = FALSE
    /\ UNCHANGED <<llm_available, ack_index, calls, sessions, memory>>

SingletonInputs ==
    { Input("hello", LLMFailure),
      Input("i don't smoke", LLMSmokingLow) }

SingletonCreate ==
    \E stype \in SessionTypes, flag \in BOOLEAN : NewManager(stype, flag)

SingletonConverse ==
    /\ state.turn_count < MaxSingletonTurn
    /\ ack_index < MaxAck
    /\ \E in \in SingletonInputs : ProcessMessage(in.message, in.reply)

SingletonNext ==
    \/ SingletonCreate
    \/ SingletonConverse

SpecSingleton == Init /\ [][SingletonNext]_vars

\* C37: a SessionManager made with use_llm = False never sends a request to
\* the LLM during process_message, whatever managers were made before it.
C37_NoLLMWithoutUseLLM ==
    [][(result'.op = "process_message" /\ state'.turn_count = state.turn_count + 1
        /\ ~use_llm)
       => llm_calls(llm_available) = 0]_vars

\* C38: in a follow_up session a follow-up field that was asked and answered
\* becomes collected, so two consecutive turns that are not ready never ask
\* about the same follow-up field.
C38_FollowUpQuestionNotRepeated ==
    [][(/\ session_type = "follow_up"
        /\ state.last_question_field # NONE
        /\ result'.op = "process_message"
        /\ state'.turn_count = state.turn_count + 1
        /\ ~result'.ready_for_crew)
       => /\ has_field(state', state.last_question_field)
          /\ state'.last_question_field # state.last_question_field]_vars

====
